---- MODULE Spec2Model ----
(***************************************************************************)
(* Model of the losrs card storage engine (src/src/storage.rs) with the    *)
(* metadata codec (src/src/types.rs, src/src/output.rs).                   *)
(*                                                                         *)
(* A page file is a sequence of lines plus a flag telling whether the file *)
(* ends with a newline (what str::lines() forgets).  A line is a record:   *)
(*   kind "item"  : "- <text>" at indentation ind; card says whether the   *)
(*                  text holds "#card", csn the tag following the marker   *)
(*   kind "meta"  : "card-<key>:: <val>" (is_metadata_line)                *)
(*   kind "text"  : a continuation line of a paragraph                     *)
(*   kind "blank" : an empty line                                          *)
(* Times are counted in ticks, SubMilli ticks to the millisecond; floats   *)
(* are counted in units of 1/(1000 * SubMilli).                            *)
(***************************************************************************)
EXTENDS Integers, Sequences, FiniteSets, TLC

\* ---------------------------------------------------------------- bounds
SubMilli == 2
MaxOps == 1
MaxCounter == 1
MaxMetaLines == 3
MaxAllocations == 3

\* ------------------------------------------------------- program constants
U8Range == 256
DelayHours == 24

NoCsn == -1

FloatOne == 1000 * SubMilli

\* --------------------------------------------------------- numeric helpers
\* f64::round of x / k for an integer count x of 1/k units, times k again:
\* nearest multiple of k, halves away from zero.
RoundTo(x, k) ==
    IF x >= 0 THEN ((2 * x + k) \div (2 * k)) * k
    ELSE -(((2 * (-x) + k) \div (2 * k)) * k)

truncate_to_millis(t) == t - (t % SubMilli)

\* (x * 1000.0).round() / 1000.0
Round3(x) == RoundTo(x, SubMilli)

\* `f as i64`: truncation toward zero
F64AsI64(x) == IF x >= 0 THEN x \div FloatOne ELSE -((-x) \div FloatOne)

\* `i as f64`
I64AsF64(d) == d * FloatOne

\* `i32 as u8`: the low eight bits
I32AsU8(r) == r % U8Range

\* ------------------------------------------------------------ SRS metadata
FSRSDefault ==
    [due |-> 0, stability |-> 0, difficulty |-> 0, elapsed_days |-> 0,
     scheduled_days |-> 0, reps |-> 0, lapses |-> 0, state |-> "New",
     last_review |-> 0]

LogseqDefault ==
    [last_interval |-> 0, repeats |-> 0, ease_factor |-> (5 * FloatOne) \div 2,
     next_schedule |-> 0, last_reviewed |-> 0, last_score |-> 5]

\* a conversion that makes the state from the legacy fields whatever the
\* interval
FsrsSynthesised(l) ==
    [due |-> l.next_schedule,
     stability |-> l.last_interval,
     difficulty |-> 5 * FloatOne,
     elapsed_days |-> F64AsI64(l.last_interval),
     scheduled_days |-> F64AsI64(l.last_interval),
     reps |-> l.repeats,
     lapses |-> 0,
     state |-> "Review",
     last_review |-> l.last_reviewed]

\* impl From<&LogseqSRSMeta> for FSRSMeta
FsrsFromLogseq(l) ==
    IF l.last_interval <= 0 THEN FSRSDefault
    ELSE [due |-> l.next_schedule,
          stability |-> l.last_interval,
          difficulty |-> 5 * FloatOne,
          elapsed_days |-> F64AsI64(l.last_interval),
          scheduled_days |-> F64AsI64(l.last_interval),
          reps |-> l.repeats,
          lapses |-> 0,
          state |-> "Review",
          last_review |-> l.last_reviewed]

\* impl From<&FSRSMeta> for LogseqSRSMeta
LogseqFromFsrs(f) ==
    [last_interval |-> I64AsF64(f.scheduled_days),
     repeats |-> I32AsU8(f.reps),
     ease_factor |-> (5 * FloatOne) \div 2,
     next_schedule |-> f.due,
     last_reviewed |-> f.last_review,
     last_score |-> 5]

\* impl From<&FSRSMeta> for FSRSMetaForStorage
FSRSMetaForStorage(f) ==
    [f EXCEPT !.due = truncate_to_millis(f.due),
              !.stability = Round3(f.stability),
              !.difficulty = Round3(f.difficulty),
              !.last_review = truncate_to_millis(f.last_review)]

\* ------------------------------------------------------------------- lines
\* The value of a "key:: value" line: a number (n), a JSON snapshot (f), or
\* text that the parser of its key rejects (bad).
NumVal(n) == [bad |-> FALSE, n |-> n, f |-> FSRSDefault]
JsonVal(f) == [bad |-> FALSE, n |-> 0, f |-> f]
BadVal == [bad |-> TRUE, n |-> 0, f |-> FSRSDefault]

Item(ind, text, card, csn) ==
    [kind |-> "item", ind |-> ind, text |-> text, card |-> card, csn |-> csn,
     key |-> "", val |-> NumVal(0)]
Meta(ind, key, val) ==
    [kind |-> "meta", ind |-> ind, text |-> "", card |-> FALSE, csn |-> NoCsn,
     key |-> key, val |-> val]
Text(ind, text) ==
    [kind |-> "text", ind |-> ind, text |-> text, card |-> FALSE, csn |-> NoCsn,
     key |-> "", val |-> NumVal(0)]
Blank ==
    [kind |-> "blank", ind |-> 0, text |-> "", card |-> FALSE, csn |-> NoCsn,
     key |-> "", val |-> NumVal(0)]

SubSeqFrom(s, a) == IF a > Len(s) THEN << >> ELSE SubSeq(s, a, Len(s))

\* fn is_metadata_line
is_metadata_line(l) == l.kind = "meta"

\* a prompt that keeps its metadata lines
KeepPromptLines(ls) == ls

\* fn strip_prompt_metadata
RECURSIVE strip_prompt_metadata(_)
strip_prompt_metadata(ls) ==
    IF ls = << >> THEN << >>
    ELSE IF is_metadata_line(Head(ls)) THEN strip_prompt_metadata(Tail(ls))
         ELSE << Head(ls) >> \o strip_prompt_metadata(Tail(ls))

\* fn strip_indent: str::strip_prefix(indent).unwrap_or(line)
strip_indent(ls, indent) ==
    [i \in 1..Len(ls) |->
        IF ls[i].kind # "blank" /\ ls[i].ind >= indent
        THEN [ls[i] EXCEPT !.ind = @ - indent]
        ELSE ls[i]]

\* ----------------------------------------------------------- outline parser
\* The markdown parser is an external collaborator.  Its result is modelled
\* on the outline grammar of the pages considered here: a list item is an
\* "item" line; the following deeper "meta"/"text" lines continue its
\* paragraph; the following deeper lines up to the next line that is not
\* deeper are its child list.  A blank line ends a paragraph; it does not
\* end a list item when a deeper line follows it, and no node's position
\* covers the blank lines after its last line.

\* last line of the paragraph that starts on item line k
ParaEnd(ls, k) ==
    CHOOSE j \in k..Len(ls) :
        /\ \A m \in (k + 1)..j :
              ls[m].kind \in {"meta", "text"} /\ ls[m].ind > ls[k].ind
        /\ \/ j = Len(ls)
           \/ ~(ls[j + 1].kind \in {"meta", "text"} /\ ls[j + 1].ind > ls[k].ind)

\* last line of the list item that starts on item line k
Inside(ls, k, j) ==
    /\ j = k \/ (ls[j].kind # "blank" /\ ls[j].ind > ls[k].ind)
    /\ \A m \in (k + 1)..j : ls[m].kind = "blank" \/ ls[m].ind > ls[k].ind

SubEnd(ls, k) ==
    CHOOSE j \in k..Len(ls) :
        /\ Inside(ls, k, j)
        /\ \A n \in (j + 1)..Len(ls) : ~Inside(ls, k, n)

\* fn list_item_is_card: the first child is a paragraph whose text contains
\* "#card"
list_item_is_card(ls, k) ==
    \E m \in k..ParaEnd(ls, k) : ls[m].card

\* a search that returns every item with the card marker, nested in a card
\* or not
FindAllMarked(ls, a, b) ==
    SelectSeq([i \in 1..(b - a + 1) |-> a + i - 1],
              LAMBDA k : ls[k].kind = "item" /\ ls[k].card)

\* fn find_card_list_items_inner, for the list that occupies lines a..b
RECURSIVE find_card_list_items_inner(_, _, _)
find_card_list_items_inner(ls, a, b) ==
    IF a > b THEN << >>
    ELSE IF ls[a].kind = "blank" THEN find_card_list_items_inner(ls, a + 1, b)
    ELSE LET e == SubEnd(ls, a)
             pe == ParaEnd(ls, a)
             rest == find_card_list_items_inner(ls, e + 1, b)
         IN  IF list_item_is_card(ls, a) THEN << a >> \o rest
             ELSE find_card_list_items_inner(ls, pe + 1, e) \o rest

\* number of lines of ls once its trailing blank lines are dropped
RECURSIVE BodyLen(_)
BodyLen(ls) ==
    IF ls = << >> THEN 0
    ELSE IF ls[Len(ls)].kind = "blank" THEN BodyLen(SubSeq(ls, 1, Len(ls) - 1))
         ELSE Len(ls)

\* number of leading lines that form the optional top-level paragraph
RECURSIVE LeadPara(_, _)
LeadPara(ls, n) ==
    IF n < Len(ls) /\ ls[n + 1].kind = "text" THEN LeadPara(ls, n + 1) ELSE n

\* number of lines up to the first line after line n that is not blank
RECURSIVE SkipBlank(_, _)
SkipBlank(ls, n) ==
    IF n < Len(ls) /\ ls[n + 1].kind = "blank" THEN SkipBlank(ls, n + 1) ELSE n

\* fn find_card_list_items: the accepted top-level shapes are [], [Paragraph],
\* [Paragraph, List] and [List]
find_card_list_items(ls) ==
    LET n == BodyLen(ls)
        p == SkipBlank(ls, LeadPara(ls, 0))
    IN  IF p >= n THEN [ok |-> TRUE, items |-> << >>]
        ELSE IF /\ ls[p + 1].kind = "item"
                /\ \A m \in (p + 1)..n :
                      ls[m].kind = "blank" \/ ls[m].ind >= ls[p + 1].ind
             THEN [ok |-> TRUE, items |-> find_card_list_items_inner(ls, p + 1, n)]
             ELSE [ok |-> FALSE, items |-> << >>]

\* fn find_card_ranges with fn range_from_position.  Lines are numbered from
\* 1 here, from 0 in the source.
\* a response list placed on the line after the prompt, wherever it starts
AdjacentStart(ls, pe) == pe + 1

\* the line on which the list after the paragraph ending on line pe starts
ListStart(ls, pe) == SkipBlank(ls, pe) + 1

CardRanges(ls, k, pe, e) ==
    IF pe < e /\ ls[ListStart(ls, pe)].kind = "item"
    THEN [ok |-> TRUE, prompt_range |-> << k, pe >>,
          response_range |-> << ListStart(ls, pe), e >>]
    ELSE [ok |-> FALSE, prompt_range |-> << k, pe >>, response_range |-> << 0, 0 >>]

find_card_ranges(ls, k) == CardRanges(ls, k, ParaEnd(ls, k), SubEnd(ls, k))

\* ------------------------------------------------------------------ errors
NoErr == [kind |-> "", key |-> "", fp |-> << >>, path |-> 0, line |-> 0]
Err(kind) == [NoErr EXCEPT !.kind = kind]

\* ---------------------------------------------------------- metadata codec
U8Parses(v) == ~v.bad /\ v.n \in 0..(U8Range - 1)

\* one iteration of the loop of SRSMeta::from_prompt_lines over line l;
\* acc = [ok, err, logseq, has, fsrs]
FromPromptLine(acc, l) ==
    IF ~acc.ok \/ l.kind # "meta" THEN acc
    ELSE LET fail == [acc EXCEPT !.ok = FALSE,
                                 !.err = [Err("CodecError") EXCEPT !.key = l.key]]
         IN CASE l.key = "card-last-interval" ->
                   IF l.val.bad THEN fail
                   ELSE [acc EXCEPT !.logseq.last_interval = l.val.n]
              [] l.key = "card-repeats" ->
                   IF ~U8Parses(l.val) THEN fail
                   ELSE [acc EXCEPT !.logseq.repeats = l.val.n]
              [] l.key = "card-ease-factor" ->
                   IF l.val.bad THEN fail
                   ELSE [acc EXCEPT !.logseq.ease_factor = l.val.n]
              [] l.key = "card-next-schedule" ->
                   IF l.val.bad THEN fail
                   ELSE [acc EXCEPT !.logseq.next_schedule = l.val.n]
              [] l.key = "card-last-reviewed" ->
                   IF l.val.bad THEN fail
                   ELSE [acc EXCEPT !.logseq.last_reviewed = l.val.n]
              [] l.key = "card-last-score" ->
                   IF ~U8Parses(l.val) THEN fail
                   ELSE [acc EXCEPT !.logseq.last_score = l.val.n]
              [] l.key = "card-fsrs-metadata" ->
                   IF l.val.bad THEN fail
                   ELSE [acc EXCEPT !.has = TRUE, !.fsrs = l.val.f]
              [] OTHER -> acc

RECURSIVE FromPromptLinesLoop(_, _)
FromPromptLinesLoop(acc, ls) ==
    IF ls = << >> THEN acc
    ELSE FromPromptLinesLoop(FromPromptLine(acc, Head(ls)), Tail(ls))

\* a decoder that takes the legacy fields as read and the state from them,
\* whether or not a snapshot was read
SrsMetaLegacyFirst(acc) ==
    IF ~acc.ok
    THEN [ok |-> FALSE, err |-> acc.err,
          srs_meta |-> [logseq_srs_meta |-> LogseqDefault, fsrs_meta |-> FSRSDefault]]
    ELSE [ok |-> TRUE, err |-> NoErr,
          srs_meta |-> [logseq_srs_meta |-> acc.logseq,
                        fsrs_meta |-> FsrsFromLogseq(acc.logseq)]]

\* SRSMeta::from_prompt_lines after its loop: the snapshot if one was read,
\* the legacy fields otherwise
SrsMetaOf(acc) ==
        IF ~acc.ok
        THEN [ok |-> FALSE, err |-> acc.err,
              srs_meta |-> [logseq_srs_meta |-> LogseqDefault, fsrs_meta |-> FSRSDefault]]
        ELSE IF acc.has
        THEN [ok |-> TRUE, err |-> NoErr,
              srs_meta |-> [logseq_srs_meta |-> LogseqFromFsrs(acc.fsrs),
                            fsrs_meta |-> acc.fsrs]]
        ELSE [ok |-> TRUE, err |-> NoErr,
              srs_meta |-> [logseq_srs_meta |-> acc.logseq,
                            fsrs_meta |-> FsrsFromLogseq(acc.logseq)]]

\* a decoder that reads no line after the first metadata line
FromFirstMetaLine(prompt_lines) ==
    SrsMetaOf(FromPromptLinesLoop(
                  [ok |-> TRUE, err |-> NoErr, logseq |-> LogseqDefault,
                   has |-> FALSE, fsrs |-> FSRSDefault],
                  IF Len(prompt_lines) > 2 THEN SubSeq(prompt_lines, 1, 2) ELSE prompt_lines))

\* SRSMeta::from_prompt_lines
from_prompt_lines(prompt_lines) ==
    SrsMetaOf(FromPromptLinesLoop(
                  [ok |-> TRUE, err |-> NoErr, logseq |-> LogseqDefault,
                   has |-> FALSE, fsrs |-> FSRSDefault], prompt_lines))

\* the metadata block without the snapshot line
FormatLegacyOnly(srs_meta, indent) ==
    << Meta(indent, "card-last-interval", NumVal(srs_meta.logseq_srs_meta.last_interval)),
       Meta(indent, "card-repeats", NumVal(srs_meta.logseq_srs_meta.repeats)),
       Meta(indent, "card-ease-factor", NumVal(srs_meta.logseq_srs_meta.ease_factor)),
       Meta(indent, "card-next-schedule",
            NumVal(truncate_to_millis(srs_meta.logseq_srs_meta.next_schedule))),
       Meta(indent, "card-last-reviewed",
            NumVal(truncate_to_millis(srs_meta.logseq_srs_meta.last_reviewed))),
       Meta(indent, "card-last-score", NumVal(srs_meta.logseq_srs_meta.last_score)) >>

\* fn format_card_storage_srs_meta: the six legacy lines in fixed order, then
\* the snapshot; timestamps are printed with millisecond precision
format_card_storage_srs_meta(srs_meta, indent) ==
    LET l == srs_meta.logseq_srs_meta
    IN << Meta(indent, "card-last-interval", NumVal(l.last_interval)),
          Meta(indent, "card-repeats", NumVal(l.repeats)),
          Meta(indent, "card-ease-factor", NumVal(l.ease_factor)),
          Meta(indent, "card-next-schedule", NumVal(truncate_to_millis(l.next_schedule))),
          Meta(indent, "card-last-reviewed", NumVal(truncate_to_millis(l.last_reviewed))),
          Meta(indent, "card-last-score", NumVal(l.last_score)),
          Meta(indent, "card-fsrs-metadata", JsonVal(FSRSMetaForStorage(srs_meta.fsrs_meta))) >>

\* fn format_card_storage_text: every line of the text behind the indent
format_card_storage_text(text, indent) ==
    [i \in 1..Len(text) |->
        IF text[i].kind = "blank" THEN text[i]
        ELSE [text[i] EXCEPT !.ind = @ + indent]]

\* fn format_card_storage: the card block with all its parts: prompt,
\* metadata lines, response
format_card_storage(card) ==
    format_card_storage_text(card.body.prompt, card.body.prompt_indent)
    \o format_card_storage_srs_meta(card.metadata.srs_meta, card.body.prompt_indent + 2)
    \o format_card_storage_text(card.body.response, card.body.prompt_indent)

\* format_card_logseq: the card block of a page; parts is the set of body
\* parts to write, all of them in inline mode, prompt and response in
\* side-store mode
format_card_logseq(card, parts) ==
    IF parts = {"PROMPT", "META", "RESPONSE"} THEN format_card_storage(card)
    ELSE (IF "PROMPT" \in parts
          THEN format_card_storage_text(card.body.prompt, card.body.prompt_indent)
          ELSE << >>)
         \o (IF "RESPONSE" \in parts
             THEN format_card_storage_text(card.body.response, card.body.prompt_indent)
             ELSE << >>)

CardBodyPartsALL == {"PROMPT", "META", "RESPONSE"}

\* ---------------------------------------------------------------- identity
\* impl From<&str> for Fingerprint: the hash is taken to be injective, a
\* fingerprint is represented by the text that was hashed
Fingerprint(prompt) == prompt

\* index of the first line of the prompt that holds "#card", 0 if none
RECURSIVE FirstMarker(_, _)
FirstMarker(prompt, i) ==
    IF i > Len(prompt) THEN 0
    ELSE IF prompt[i].card THEN i ELSE FirstMarker(prompt, i + 1)

\* fn extract_serial_num: the tag that follows the first "#card", if any
extract_serial_num(prompt) ==
    LET i == FirstMarker(prompt, 1)
    IN  IF i = 0 THEN NoCsn ELSE prompt[i].csn

\* CARD_SERIAL_NUM_RE.replace(prompt, "#card <!-- CSN:n -->"): the first
\* "#card", with its tag if it has one, becomes "#card" tagged n
ReplaceSerialNum(prompt, n) ==
    LET i == FirstMarker(prompt, 1)
    IN  IF i = 0 THEN prompt ELSE [prompt EXCEPT ![i].csn = n]

\* -------------------------------------------------------------------- Page
NoMeta == [logseq_srs_meta |-> LogseqDefault, fsrs_meta |-> FSRSDefault]

NoCard ==
    [metadata |-> [card_ref |-> [source_path |-> 0, prompt_fingerprint |-> << >>,
                                 serial_num |-> NoCsn],
                   srs_meta |-> NoMeta],
     body |-> [prompt |-> << >>, prompt_indent |-> 0, response |-> << >>]]

NoRanges == [ok |-> FALSE, prompt_range |-> << 0, 0 >>, response_range |-> << 0, 0 >>]

\* Page::get_lines: str::lines() ends a line at "\n" or "\r\n" only, while
\* the markdown parser also ends one at a lone "\r".  A file whose lines end
\* with lone "\r" (file.cr) is one line to str::lines().
get_lines(file) ==
    IF file.cr /\ file.lines # << >> THEN << Text(0, "whole file") >> ELSE file.lines

\* Page::new: the file is read, its card items found; tree holds the lines
\* as the markdown parser numbers them, file_raw_lines what get_lines gives
PageNew(path, file) ==
    LET found == find_card_list_items(file.lines)
    IN  [ok |-> found.ok,
         err |-> IF found.ok THEN NoErr ELSE [Err("ParseError") EXCEPT !.path = path],
         path |-> path,
         tree |-> file.lines,
         file_raw_lines |-> get_lines(file),
         card_list_items |-> found.items]

\* fn destructure_card: the prompt lines and the response lines of the card
\* with line ranges `ranges`
destructure_card(ls, ranges) ==
    IF ~ranges.ok
    THEN [ok |-> FALSE, err |-> Err("MalformedCard"),
          prompt_lines |-> << >>, response_lines |-> << >>]
    ELSE IF \/ ranges.prompt_range[2] > Len(ls)
            \/ ranges.response_range[2] > Len(ls)
    THEN [ok |-> FALSE, err |-> Err("RangeError"),
          prompt_lines |-> << >>, response_lines |-> << >>]
    ELSE [ok |-> TRUE, err |-> NoErr,
          prompt_lines |-> SubSeq(ls, ranges.prompt_range[1], ranges.prompt_range[2]),
          response_lines |-> SubSeq(ls, ranges.response_range[1], ranges.response_range[2])]

\* Page::extract_card once the card is destructured: prompt is the prompt
\* without metadata lines and indent, meta the decoded metadata
CardOf(path, k, prompt_indent, prompt, response, meta) ==
    IF ~meta.ok
    THEN [ok |-> FALSE, err |-> meta.err, card |-> NoCard]
    ELSE [ok |-> TRUE, err |-> NoErr,
          card |-> [metadata |->
                       [card_ref |-> [source_path |-> path,
                                      prompt_fingerprint |-> Fingerprint(prompt),
                                      serial_num |-> extract_serial_num(prompt)],
                        srs_meta |-> meta.srs_meta],
                    body |-> [prompt |-> prompt, prompt_indent |-> prompt_indent,
                              response |-> response]]]

ExtractDestructured(path, k, d) ==
    IF ~d.ok
    THEN [ok |-> FALSE, err |-> d.err, card |-> NoCard]
    ELSE CardOf(path, k, d.prompt_lines[1].ind,
                strip_indent(strip_prompt_metadata(d.prompt_lines), d.prompt_lines[1].ind),
                strip_indent(d.response_lines, d.prompt_lines[1].ind),
                from_prompt_lines(d.prompt_lines))

\* Page::extract_card
extract_card(page, k) ==
    ExtractDestructured(page.path, k,
        destructure_card(page.file_raw_lines, find_card_ranges(page.tree, k)))

\* a listing that leaves out the cards that cannot be extracted
RECURSIVE ExtractCardsSkipping(_, _)
ExtractCardsSkipping(page, items) ==
    IF items = << >> THEN [ok |-> TRUE, err |-> NoErr, cards |-> << >>]
    ELSE LET c == extract_card(page, Head(items))
             rest == ExtractCardsSkipping(page, Tail(items))
         IN  IF ~c.ok THEN rest
             ELSE [ok |-> TRUE, err |-> NoErr, cards |-> << c.card >> \o rest.cards]

\* Page::extract_cards: every card of the page, or the first error with the
\* line of its list item as context
RECURSIVE ExtractCardsFrom(_, _)
ExtractCardsFrom(page, items) ==
    IF items = << >> THEN [ok |-> TRUE, err |-> NoErr, cards |-> << >>]
    ELSE LET c == extract_card(page, Head(items))
         IN  IF ~c.ok
             THEN [ok |-> FALSE, err |-> [c.err EXCEPT !.line = Head(items)],
                   cards |-> << >>]
             ELSE LET rest == ExtractCardsFrom(page, Tail(items))
                  IN  IF ~rest.ok THEN rest
                      ELSE [ok |-> TRUE, err |-> NoErr, cards |-> << c.card >> \o rest.cards]

extract_cards(page) == ExtractCardsFrom(page, page.card_list_items)

\* Page::find_card: the first card whose fingerprint is that of card_ref
RECURSIVE FindCardFrom(_, _, _)
FindCardFrom(page, items, card_ref) ==
    IF items = << >>
    THEN [ok |-> FALSE,
          err |-> [Err("CardNotFound") EXCEPT !.fp = card_ref.prompt_fingerprint,
                                              !.path = card_ref.source_path],
          item |-> 0, ranges |-> NoRanges, card |-> NoCard]
    ELSE LET c == extract_card(page, Head(items))
         IN  IF ~c.ok
             THEN [ok |-> FALSE, err |-> c.err, item |-> 0, ranges |-> NoRanges,
                   card |-> NoCard]
             ELSE IF c.card.metadata.card_ref.prompt_fingerprint
                        = card_ref.prompt_fingerprint
             THEN [ok |-> TRUE, err |-> NoErr, item |-> Head(items),
                   ranges |-> find_card_ranges(page.tree, Head(items)),
                   card |-> c.card]
             ELSE FindCardFrom(page, Tail(items), card_ref)

\* a search that takes the first card of the page whatever its fingerprint
FindFirstCard(page, card_ref) ==
    FindCardFrom(page, page.card_list_items,
                 [card_ref EXCEPT !.prompt_fingerprint =
                      IF page.card_list_items = << >> THEN card_ref.prompt_fingerprint
                      ELSE extract_card(page, Head(page.card_list_items))
                               .card.metadata.card_ref.prompt_fingerprint])

find_card(page, card_ref) == FindCardFrom(page, page.card_list_items, card_ref)

\* a rewrite whose trailing region starts on the last line of the response
RewriteCardLate(page, card, card_ranges, card_body_parts) ==
    [lines |-> SubSeq(page.file_raw_lines, 1, card_ranges.prompt_range[1] - 1)
               \o format_card_logseq(card, card_body_parts)
               \o SubSeqFrom(page.file_raw_lines, card_ranges.response_range[2]),
     nl |-> TRUE, cr |-> FALSE]

\* Page::rewrite_card: the content written to the page file; every region
\* written ends with a newline
pre_lines(file_raw_lines, card_ranges) ==
    SubSeq(file_raw_lines, 1, card_ranges.prompt_range[1] - 1)

\* a trailing region without its blank lines
PostLinesTrimmed(file_raw_lines, card_ranges) ==
    SelectSeq(SubSeqFrom(file_raw_lines, card_ranges.response_range[2] + 1),
              LAMBDA l : l.kind # "blank")

post_lines(file_raw_lines, card_ranges) ==
    SubSeqFrom(file_raw_lines, card_ranges.response_range[2] + 1)

rewrite_card(page, card, card_ranges, card_body_parts) ==
    [lines |-> pre_lines(page.file_raw_lines, card_ranges)
               \o format_card_logseq(card, card_body_parts)
               \o post_lines(page.file_raw_lines, card_ranges),
     nl |-> TRUE, cr |-> FALSE]

\* ------------------------------------------------------------ file system
VARIABLES
    pages,      \* page id -> [lines, nl], the content of the page file
    writable,   \* page id -> whether the page file can be opened for writing
    counter,    \* the file .card-serial-num: [exists, val]
    sidestore,  \* the file .card-metadata.jsonl: [exists, lines]
    root,       \* whether the page files lie in <root>/pages
    mode,       \* settings.metadata_mode
    cmd,        \* the command in progress: [name, queue]
    ops,        \* number of operations started
    allocs,     \* serial numbers returned by the allocator, in order
    last,       \* the last operation: arguments, outcome, state before it
    wr,         \* the page write in progress, file operation by file operation
    fs,         \* the filesystem entries around the path a command is given
    al          \* the allocations in progress, file operation by file operation

vars == << pages, writable, counter, sidestore, root, mode, cmd, ops, allocs, last, wr,
          fs, al >>

\* content of a counter file that does not parse as u64
Unparsable == -1

\* ------------------------------------------------------- serial allocator
\* an allocator that returns the number it read and leaves the counter file
\* as it was
AllocateStale(c) ==
    IF ~c.exists
    THEN [ok |-> TRUE, n |-> 0, counter |-> [exists |-> TRUE, val |-> 0]]
    ELSE IF c.val = Unparsable
    THEN [ok |-> FALSE, n |-> NoCsn, counter |-> c]
    ELSE [ok |-> TRUE, n |-> c.val, counter |-> c]

\* a number that is not incremented
NotIncremented(v) == v

\* allocate_inner: card_serial += 1
Incremented(v) == v + 1

\* GraphRootSerialNumAllocator::allocate_inner on counter file c
allocate_inner(c) ==
    IF ~c.exists
    THEN [ok |-> TRUE, n |-> 0, counter |-> [exists |-> TRUE, val |-> 0]]
    ELSE IF c.val = Unparsable
    THEN [ok |-> FALSE, n |-> NoCsn, counter |-> c]
    ELSE [ok |-> TRUE, n |-> c.val + 1, counter |-> [exists |-> TRUE, val |-> c.val + 1]]

\* a choice that takes the counter-file allocator whether or not there is a
\* collection root
ChooseGraphRootAllocator(hasRoot) == "GraphRoot"

\* fn choose_serial_num_allocator with fn find_graph_root
choose_serial_num_allocator(hasRoot) == IF hasRoot THEN "GraphRoot" ELSE "NoOp"

\* CardSerialNumAllocator::allocate: attempted is FALSE for the no-op
\* allocator (None)
allocate(allocator, c) ==
    IF allocator = "NoOp"
    THEN [attempted |-> FALSE, ok |-> TRUE, n |-> NoCsn, counter |-> c]
    ELSE [attempted |-> TRUE] @@ allocate_inner(c)

\* an allocation that does not look at the serial number the card carries
MaybeAllocateAlways(card, allocator, c) ==
    LET a == allocate(allocator, c)
    IN  IF ~a.attempted
        THEN [ok |-> TRUE, allocated |-> FALSE, card |-> card, counter |-> c]
        ELSE IF ~a.ok
        THEN [ok |-> FALSE, allocated |-> FALSE, card |-> card, counter |-> a.counter]
        ELSE [ok |-> TRUE, allocated |-> TRUE,
              card |-> [card EXCEPT
                          !.metadata.card_ref.serial_num = a.n,
                          !.body.prompt = ReplaceSerialNum(card.body.prompt, a.n)],
              counter |-> a.counter]

\* fn maybe_allocate_serial_num
maybe_allocate_serial_num(card, allocator, c) ==
    IF card.metadata.card_ref.serial_num # NoCsn
    THEN [ok |-> TRUE, allocated |-> FALSE, card |-> card, counter |-> c]
    ELSE LET a == allocate(allocator, c)
         IN  IF ~a.attempted
             THEN [ok |-> TRUE, allocated |-> FALSE, card |-> card, counter |-> c]
             ELSE IF ~a.ok
             THEN [ok |-> FALSE, allocated |-> FALSE, card |-> card, counter |-> a.counter]
             ELSE [ok |-> TRUE, allocated |-> TRUE,
                   card |-> [card EXCEPT
                               !.metadata.card_ref.serial_num = a.n,
                               !.body.prompt = ReplaceSerialNum(card.body.prompt, a.n)],
                   counter |-> a.counter]

\* -------------------------------------------------------------- side-store
\* BTreeMap<u64, FSRSMeta>: a sequence of [serial_num, fsrs_meta] in
\* ascending order of serial_num, each serial_num once
MapHas(m, k) == \E i \in 1..Len(m) : m[i].serial_num = k
MapGet(m, k) == m[CHOOSE i \in 1..Len(m) : m[i].serial_num = k].fsrs_meta
MapRemove(m, k) == SelectSeq(m, LAMBDA r : r.serial_num # k)
MapInsert(m, k, v) ==
    SelectSeq(m, LAMBDA r : r.serial_num < k)
    \o << [serial_num |-> k, fsrs_meta |-> v] >>
    \o SelectSeq(m, LAMBDA r : r.serial_num > k)

\* StorageManager::load_fsrs_metas
RECURSIVE InsertAll(_, _)
InsertAll(m, recs) ==
    IF recs = << >> THEN m
    ELSE InsertAll(MapInsert(m, Head(recs).serial_num, Head(recs).fsrs_meta), Tail(recs))

load_fsrs_metas(side) == IF ~side.exists THEN << >> ELSE InsertAll(<< >>, side.lines)

\* StorageManager::store_fsrs_metas
store_fsrs_metas(fsrs_metas) == [exists |-> TRUE, lines |-> fsrs_metas]

\* StorageManager::merge_page_and_graph_root_card_metas
RECURSIVE merge_page_and_graph_root_card_metas(_, _)
merge_page_and_graph_root_card_metas(page_card_metas, by_csn) ==
    IF page_card_metas = << >> THEN << >>
    ELSE LET cm == Head(page_card_metas)
             csn == cm.card_ref.serial_num
         IN  IF csn = NoCsn \/ ~MapHas(by_csn, csn)
             THEN << cm >> \o merge_page_and_graph_root_card_metas(Tail(page_card_metas), by_csn)
             ELSE << [card_ref |-> cm.card_ref,
                      srs_meta |-> [logseq_srs_meta |-> LogseqFromFsrs(MapGet(by_csn, csn)),
                                    fsrs_meta |-> MapGet(by_csn, csn)]] >>
                  \o merge_page_and_graph_root_card_metas(Tail(page_card_metas),
                                                          MapRemove(by_csn, csn))

\* ---------------------------------------------------------- StorageManager
\* a construction that accepts side-store mode without a collection root
StorageManagerNewRootless(hasRoot, md) ==
    [ok |-> TRUE, err |-> NoErr,
     serial_num_allocator |-> choose_serial_num_allocator(hasRoot),
     metadata_source |-> IF md = "Inline" THEN "PageFiles" ELSE "GraphRoot"]

\* StorageManager::new: in side-store mode a collection root is required
StorageManagerNew(hasRoot, md) ==
    IF md = "InGraphRoot" /\ ~hasRoot
    THEN [ok |-> FALSE, err |-> Err("NoGraphRoot"),
          serial_num_allocator |-> "NoOp", metadata_source |-> "PageFiles"]
    ELSE [ok |-> TRUE, err |-> NoErr,
          serial_num_allocator |-> choose_serial_num_allocator(hasRoot),
          metadata_source |-> IF md = "Inline" THEN "PageFiles" ELSE "GraphRoot"]

CardMetas(cards) == [i \in 1..Len(cards) |-> cards[i].metadata]

\* StorageManager::load_card_metas_from_page
MetasOfCards(cs) == [ok |-> cs.ok, err |-> cs.err, metas |-> CardMetas(cs.cards)]

MetasOfPage(page) ==
    IF ~page.ok THEN [ok |-> FALSE, err |-> page.err, metas |-> << >>]
    ELSE MetasOfCards(extract_cards(page))

load_card_metas_from_page(path, file) == MetasOfPage(PageNew(path, file))

\* StorageManager::load_card_metas, the match on metadata_source
MergedMetas(mgr, page_card_metas, side) ==
    IF ~page_card_metas.ok \/ mgr.metadata_source = "PageFiles" THEN page_card_metas
    ELSE [ok |-> TRUE, err |-> NoErr,
          metas |-> merge_page_and_graph_root_card_metas(page_card_metas.metas,
                                                         load_fsrs_metas(side))]

\* StorageManager::load_card_metas
load_card_metas(mgr, path, file, side) ==
    MergedMetas(mgr, load_card_metas_from_page(path, file), side)

\* StorageManager::load_card_body_by_ref
BodyOfFound(found) == [ok |-> found.ok, err |-> found.err, body |-> found.card.body]

BodyInPage(page, card_ref) ==
    IF ~page.ok THEN [ok |-> FALSE, err |-> page.err, body |-> NoCard.body]
    ELSE BodyOfFound(find_card(page, card_ref))

load_card_body_by_ref(card_ref, file) ==
    BodyInPage(PageNew(card_ref.source_path, file), card_ref)

NotFound == [ok |-> FALSE, err |-> NoErr, item |-> 0, ranges |-> NoRanges, card |-> NoCard]

\* the outcome of rewrite_card_meta: the result, the files as the call leaves
\* them, the card found and the card written
Outcome(ok, err, pgs, ctr, side, found, allocated, card) ==
    [ok |-> ok, err |-> err, pages |-> pgs, counter |-> ctr, sidestore |-> side,
     found |-> found, allocated |-> allocated, card |-> card]

\* all body parts whatever the metadata source
PartsAll(mgr) == CardBodyPartsALL

\* the body parts rewrite_card_meta writes to the page
PartsFor(mgr) ==
    IF mgr.metadata_source = "PageFiles" THEN CardBodyPartsALL ELSE {"PROMPT", "RESPONSE"}

\* StorageManager::rewrite_card_meta from the match on metadata_source on:
\* the page is rewritten, then in side-store mode the side-store
WriteCard(mgr, card_ref, srs_meta, pgs, side, page, found, alloc, canWrite) ==
    IF ~canWrite
    THEN Outcome(FALSE, Err("Io"), pgs, alloc.counter, side, found, alloc.allocated,
                 alloc.card)
    ELSE Outcome(TRUE, NoErr,
                 [pgs EXCEPT ![card_ref.source_path] =
                      rewrite_card(page, alloc.card, found.ranges, PartsFor(mgr))],
                 alloc.counter,
                 IF mgr.metadata_source = "PageFiles" THEN side
                 ELSE store_fsrs_metas(
                          MapInsert(load_fsrs_metas(side),
                                    alloc.card.metadata.card_ref.serial_num,
                                    srs_meta.fsrs_meta)),
                 found, alloc.allocated, alloc.card)

\* StorageManager::rewrite_card_meta after maybe_allocate_serial_num
RewriteAllocated(mgr, card_ref, srs_meta, pgs, side, page, found, alloc, canWrite) ==
    IF ~alloc.ok
    THEN Outcome(FALSE, Err("AllocationError"), pgs, alloc.counter, side, found, FALSE,
                 alloc.card)
    ELSE WriteCard(mgr, card_ref, srs_meta, pgs, side, page, found, alloc, canWrite)

\* StorageManager::rewrite_card_meta after Page::find_card
RewriteFound(mgr, card_ref, srs_meta, pgs, ctr, side, page, found, canWrite) ==
    IF ~found.ok
    THEN Outcome(FALSE, found.err, pgs, ctr, side, found, FALSE, NoCard)
    ELSE RewriteAllocated(mgr, card_ref, srs_meta, pgs, side, page, found,
             maybe_allocate_serial_num([found.card EXCEPT !.metadata.srs_meta = srs_meta],
                                       mgr.serial_num_allocator, ctr),
             canWrite)

\* StorageManager::rewrite_card_meta after Page::new
RewriteInPage(mgr, card_ref, srs_meta, pgs, ctr, side, page, canWrite) ==
    IF ~page.ok
    THEN Outcome(FALSE, page.err, pgs, ctr, side, NotFound, FALSE, NoCard)
    ELSE RewriteFound(mgr, card_ref, srs_meta, pgs, ctr, side, page,
                      find_card(page, card_ref), canWrite)

\* StorageManager::rewrite_card_meta on the files pgs (pages), ctr (counter)
\* and side (side-store); canWrite tells whether the page file can be opened
\* for writing
rewrite_card_meta(mgr, card_ref, srs_meta, pgs, ctr, side, canWrite) ==
    RewriteInPage(mgr, card_ref, srs_meta, pgs, ctr, side,
                  PageNew(card_ref.source_path, pgs[card_ref.source_path]), canWrite)

\* ------------------------------------------------------------ page locator
\* A path is the sequence of its components; a component is a name with its
\* extension ("" for none).  The root directory, "." and ".." are components
\* that are not names.  A filesystem is the set of its entries
\* [path, kind], kind "file" or "dir"; the empty path does not exist.
Comp(name, ext) == [name |-> name, ext |-> ext]
RootDir == Comp("/", "")
CurDir == Comp(".", "")
PagesName == Comp("pages", "")

NoPath == [some |-> FALSE, path |-> << >>]
SomePath(p) == [some |-> TRUE, path |-> p]

\* Path::parent: None for the empty path and for the root
parent(p) ==
    IF p = << >> \/ p = << RootDir >> THEN NoPath ELSE SomePath(SubSeq(p, 1, Len(p) - 1))

\* Path::file_name: the last component if it is a name
file_name(p) ==
    IF p # << >> /\ p[Len(p)].name \notin {"/", ".", ".."}
    THEN [some |-> TRUE, name |-> p[Len(p)]]
    ELSE [some |-> FALSE, name |-> Comp("", "")]

\* Path::exists, Path::is_dir, Path::is_file, fs::read_dir
exists(tree, p) == \E e \in tree : e.path = p
is_dir(tree, p) == \E e \in tree : e.path = p /\ e.kind = "dir"
is_file(tree, p) == \E e \in tree : e.path = p /\ e.kind = "file"
read_dir(tree, d) ==
    {e.path : e \in {x \in tree : /\ Len(x.path) = Len(d) + 1
                                  /\ SubSeq(x.path, 1, Len(d)) = d}}

\* the three variants of enum PageFiles and the error
PageFilesOf(variant, graph_root, files) ==
    [ok |-> TRUE, err |-> NoErr, variant |-> variant, graph_root |-> graph_root,
     files |-> files]
NoPageFiles(kind) ==
    [ok |-> FALSE, err |-> Err(kind), variant |-> "", graph_root |-> << >>, files |-> {}]

\* fn find_page_files_inner, for a path that is not a directory
FindSingle(p, par) ==
    IF ~par.some THEN PageFilesOf("Single", << >>, {p})
    ELSE IF ~file_name(par.path).some THEN NoPageFiles("ParentWithoutName")
    ELSE IF file_name(par.path).name = PagesName
    THEN PageFilesOf("SingleInGraphRoot", parent(par.path).path, {p})
    ELSE PageFilesOf("Single", << >>, {p})

\* fn find_page_files_inner; the page files of a collection root are a set,
\* read_dir yields them in no particular order
find_page_files_inner(tree, p) ==
    IF ~exists(tree, p) THEN NoPageFiles("NotFound")
    ELSE IF ~is_dir(tree, p) THEN FindSingle(p, parent(p))
    ELSE IF ~exists(tree, p \o << PagesName >>) THEN NoPageFiles("InvalidLayout")
    ELSE IF ~is_dir(tree, p \o << PagesName >>) THEN NoPageFiles("Io")
    ELSE PageFilesOf("GraphRoot", p,
                     {f \in read_dir(tree, p \o << PagesName >>) :
                          is_file(tree, f) /\ f[Len(f)].ext = "md"})

\* fn find_graph_root
find_graph_root(tree, p) ==
    LET r == find_page_files_inner(tree, p)
    IN  [ok |-> r.ok, err |-> r.err, some |-> r.ok /\ r.variant # "Single",
         graph_root |-> r.graph_root]

\* sample filesystems: files outside and inside "pages" directories, and a
\* directory g whose "pages" is absent, a file, or a directory with some of
\* the entries of PagesEntries
Entry(p, kind) == [path |-> p, kind |-> kind]
FooMd == Comp("foo", "md")
G == Comp("g", "")

BaseTree ==
    { Entry(<< RootDir >>, "dir"), Entry(<< RootDir, FooMd >>, "file"),
      Entry(<< FooMd >>, "file"),
      Entry(<< CurDir >>, "dir"), Entry(<< CurDir, FooMd >>, "file"),
      Entry(<< Comp("notes", "") >>, "dir"), Entry(<< Comp("notes", ""), FooMd >>, "file"),
      Entry(<< PagesName >>, "dir"), Entry(<< PagesName, FooMd >>, "file"),
      Entry(<< G >>, "dir") }

PagesEntries ==
    { Entry(<< G, PagesName, Comp("a", "md") >>, "file"),
      Entry(<< G, PagesName, Comp("b", "txt") >>, "file"),
      Entry(<< G, PagesName, Comp("c", "md") >>, "dir"),
      Entry(<< G, PagesName, Comp("d", "") >>, "file") }

Trees ==
    { BaseTree, BaseTree \cup {Entry(<< G, PagesName >>, "file")} }
    \cup { BaseTree \cup {Entry(<< G, PagesName >>, "dir")} \cup S : S \in SUBSET PagesEntries }

\* the paths a command is given
PathArgs ==
    { << Comp("nope", "md") >>, << FooMd >>, << RootDir, FooMd >>, << CurDir, FooMd >>,
      << Comp("notes", ""), FooMd >>, << PagesName, FooMd >>,
      << G, PagesName, Comp("a", "md") >>, << G >>, << Comp("notes", "") >> }

\* ------------------------------------------------------------ sample inputs
\* a scheduling state as the tool writes it (millisecond timestamps, three
\* decimals)
FsrsA ==
    [due |-> 4 * SubMilli, stability |-> 2 * FloatOne + 5 * SubMilli,
     difficulty |-> 5 * FloatOne, elapsed_days |-> 1, scheduled_days |-> 2,
     reps |-> 3, lapses |-> 0, state |-> "Review", last_review |-> 2 * SubMilli]

\* a scheduling state with sub-millisecond timestamps, a fourth decimal and a
\* repetition count above 255
FsrsB ==
    [due |-> 6 * SubMilli + 1, stability |-> FloatOne + 1,
     difficulty |-> 7 * FloatOne + 1, elapsed_days |-> 0, scheduled_days |-> 1,
     reps |-> 300, lapses |-> 1, state |-> "Review", last_review |-> 3 * SubMilli + 1]

LegacyA ==
    [last_interval |-> 244 * FloatOne + 140 * SubMilli, repeats |-> 6,
     ease_factor |-> 3 * FloatOne + 100 * SubMilli, next_schedule |-> 8 * SubMilli,
     last_reviewed |-> 2 * SubMilli, last_score |-> 3]

\* the metadata values a caller passes to rewrite_card_meta besides the
\* listed ones
SampleMetas ==
    { [logseq_srs_meta |-> LogseqFromFsrs(FsrsA), fsrs_meta |-> FsrsA],
      [logseq_srs_meta |-> [LegacyA EXCEPT !.repeats = 7], fsrs_meta |-> FsrsB] }

LegacyLines(ind, l) ==
    << Meta(ind, "card-last-interval", NumVal(l.last_interval)),
       Meta(ind, "card-repeats", NumVal(l.repeats)),
       Meta(ind, "card-ease-factor", NumVal(l.ease_factor)),
       Meta(ind, "card-next-schedule", NumVal(l.next_schedule)),
       Meta(ind, "card-last-reviewed", NumVal(l.last_reviewed)),
       Meta(ind, "card-last-score", NumVal(l.last_score)) >>

Reverse(sq) == [i \in 1..Len(sq) |-> sq[Len(sq) + 1 - i]]

\* a card at indentation ind: prompt line, metadata lines, one response item
CardLines(ind, text, csn, metas) ==
    << Item(ind, text, TRUE, csn) >> \o metas \o << Item(ind + 2, "answer", FALSE, NoCsn) >>

NotCard == Item(0, "Not card", FALSE, NoCsn)

File(ls, nl) == [lines |-> ls, nl |-> nl, cr |-> FALSE]

\* a file whose lines end with a lone carriage return
CrFile(ls) == [lines |-> ls, nl |-> FALSE, cr |-> TRUE]

Catalogue ==
    { \* a card without metadata between two other items
      File(<< NotCard >> \o CardLines(0, "sphere", NoCsn, << >>) \o << NotCard >>, TRUE),
      \* legacy lines only
      File(<< NotCard >> \o CardLines(0, "sphere", NoCsn, LegacyLines(2, LegacyA))
           \o << NotCard >>, TRUE),
      \* legacy lines only, in another order, with a line of an unknown key
      File(CardLines(0, "sphere", NoCsn,
                     Reverse(LegacyLines(2, LegacyA)) \o << Meta(2, "card-unknown", BadVal) >>),
           FALSE),
      \* snapshot only
      File(<< NotCard >> \o CardLines(0, "sphere", NoCsn,
                                      << Meta(2, "card-fsrs-metadata", JsonVal(FsrsB)) >>),
           TRUE),
      \* snapshot before legacy lines, the card tagged with a serial number
      File(CardLines(0, "sphere", 5,
                     << Meta(2, "card-fsrs-metadata", JsonVal(FsrsA)) >>
                     \o LegacyLines(2, LegacyA))
           \o << NotCard >>, TRUE),
      \* only a repeat count
      File(<< NotCard >>
           \o CardLines(0, "sphere", NoCsn, << Meta(2, "card-repeats", NumVal(6)) >>)
           \o << NotCard >>, TRUE),
      \* two cards with the same prompt
      File(CardLines(0, "sphere", NoCsn, << >>)
           \o CardLines(0, "sphere", NoCsn, << Meta(2, "card-repeats", NumVal(6)) >>), TRUE),
      \* two cards with the same serial number
      File(CardLines(0, "sphere", 0, << >>) \o CardLines(0, "cube", 0, << >>), TRUE),
      \* a tagged and an untagged card
      File(CardLines(0, "sphere", 5, << >>) \o CardLines(0, "cube", NoCsn, << >>), TRUE),
      \* a leading paragraph, a card nested under another item whose prompt
      \* continues on a second line, blank lines at the end
      File(<< Text(0, "title"), Item(0, "topic", FALSE, NoCsn), Item(2, "sphere", TRUE, NoCsn),
              Meta(4, "card-repeats", NumVal(6)), Text(4, "more"),
              Item(4, "answer", FALSE, NoCsn), Text(6, "more"),
              Item(2, "other", FALSE, NoCsn), Blank, Blank >>, TRUE),
      \* a card followed by a card marker on an item without a response
      File(CardLines(0, "sphere", NoCsn, << >>) \o << Item(0, "cube", TRUE, NoCsn) >>, TRUE),
      \* a card followed by a card whose repeat count does not parse
      File(CardLines(0, "sphere", NoCsn, << >>)
           \o CardLines(0, "cube", NoCsn, << Meta(2, "card-repeats", BadVal) >>), TRUE),
      \* one card and two blank lines
      File(CardLines(0, "sphere", NoCsn, << >>) \o << Blank, Blank >>, TRUE),
      \* a page whose lines end with a lone carriage return
      CrFile(<< NotCard >> \o CardLines(0, "sphere", NoCsn, << >>)) }

\* the second page of the collection
SecondPage == File(CardLines(0, "torus", NoCsn, << >>), TRUE)

PageIds == {1, 2}

\* ------------------------------------------------------------------ state
Files == [pages |-> pages, counter |-> counter, sidestore |-> sidestore]

LastNone ==
    [op |-> "init", ok |-> TRUE, err |-> NoErr, page |-> 0, fp |-> << >>, m |-> NoMeta,
     pre |-> Files, found |-> NotFound, allocated |-> FALSE, card |-> NoCard,
     metas |-> << >>, body |-> NoCard.body, paths |-> << >>,
     path |-> << >>, located |-> NoPageFiles(""), shown |-> 0, keys |-> 0,
     args |-> << >>, events |-> << >>, items |-> << >>, ranges |-> << >>]

\* the processes that allocate against one counter file
Procs == {1, 2}

\* no allocation in progress and none made: the stage and the number read of
\* each process, the counter file and the time at its start, and the
\* allocations that ended
NoAllocation ==
    [pc |-> [p \in Procs |-> "idle"], read |-> [p \in Procs |-> 0],
     from |-> [p \in Procs |-> [exists |-> FALSE, val |-> 0]],
     start |-> [p \in Procs |-> 0], clock |-> 0, hist |-> << >>]

\* no page write in progress
NoWrite ==
    [stage |-> "idle", page |-> 0, old |-> << >>, pre |-> << >>, block |-> << >>,
     post |-> << >>, side |-> [exists |-> FALSE, lines |-> << >>]]

\* the serial numbers an allocator that alone wrote counter file c returned
Returned(c) == IF c.exists THEN [i \in 1..(c.val + 1) |-> i - 1] ELSE << >>

\* the collections considered: [root, mode, counter, sidestore, writable]
Env(r, md, c, sd, w) ==
    [root |-> r, mode |-> md, counter |-> c, sidestore |-> sd, writable |-> w]

AllWritable == [q \in PageIds |-> TRUE]
SecondReadOnly == [q \in PageIds |-> q = 1]
NoFile == [exists |-> FALSE, val |-> 0]
NoSideStore == [exists |-> FALSE, lines |-> << >>]
SideStoreA ==
    [exists |-> TRUE,
     lines |-> << [serial_num |-> 0, fsrs_meta |-> FsrsA],
                  [serial_num |-> 5, fsrs_meta |-> FsrsB] >>]

Envs ==
    { Env(FALSE, "Inline", NoFile, NoSideStore, AllWritable),
      Env(FALSE, "InGraphRoot", NoFile, NoSideStore, AllWritable),
      Env(TRUE, "Inline", NoFile, NoSideStore, AllWritable),
      Env(TRUE, "InGraphRoot", NoFile, NoSideStore, AllWritable),
      Env(TRUE, "InGraphRoot", [exists |-> TRUE, val |-> MaxCounter], SideStoreA,
          SecondReadOnly),
      Env(TRUE, "Inline", [exists |-> TRUE, val |-> Unparsable], NoSideStore, AllWritable),
      Env(TRUE, "InGraphRoot", [exists |-> TRUE, val |-> Unparsable], NoSideStore,
          AllWritable) }
    \cup { Env(TRUE, "Inline", [exists |-> TRUE, val |-> v], NoSideStore, SecondReadOnly) :
             v \in 0..MaxCounter }

\* the filesystem of the collection g with one page file
DefaultTree ==
    BaseTree \cup {Entry(<< G, PagesName >>, "dir"),
                   Entry(<< G, PagesName, Comp("a", "md") >>, "file")}

InitWith(files, envs, trees) ==
    /\ \E f \in files : pages = [q \in PageIds |-> IF q = 1 THEN f ELSE SecondPage]
    /\ \E e \in envs :
          /\ root = e.root
          /\ mode = e.mode
          /\ counter = e.counter
          /\ sidestore = e.sidestore
          /\ writable = e.writable
    /\ cmd = [name |-> "idle", queue |-> << >>, selected |-> << >>,
              start |-> [pages |-> pages, counter |-> counter, sidestore |-> sidestore],
              at |-> 0, up_to |-> 0, said |-> ""]
    /\ ops = 0
    /\ allocs = Returned(counter)
    /\ last = [LastNone EXCEPT
                  !.pre = [pages |-> pages, counter |-> counter, sidestore |-> sidestore]]
    /\ wr = NoWrite
    /\ fs \in trees
    /\ al = NoAllocation

Init == InitWith(Catalogue, Envs, {DefaultTree})

Mgr == StorageManagerNew(root, mode)

\* the fingerprints a caller holds for page q: those of a listing of the page
\* and one that no card has
BogusFp == << Item(0, "vanished", TRUE, NoCsn) >>

ListedMetas(q) == load_card_metas(Mgr, q, pages[q], sidestore).metas

FpsOf(ms) == {ms[i].card_ref.prompt_fingerprint : i \in 1..Len(ms)}

KnownFps(q) == FpsOf(ListedMetas(q)) \cup {BogusFp}

\* the metadata a caller writes for fingerprint fp of page q: what was listed
\* for it, or a sample value
MetasFor(ms, fp) ==
    {ms[i].srs_meta : i \in {j \in 1..Len(ms) : ms[j].card_ref.prompt_fingerprint = fp}}

MetaChoices(q, fp) == MetasFor(ListedMetas(q), fp) \cup SampleMetas

Started == cmd.name # "fix" /\ ops < MaxOps /\ ops' = ops + 1

\* StorageManager::new fails: the command ends before any operation
NewFails ==
    /\ Started
    /\ ~Mgr.ok
    /\ last' = [LastNone EXCEPT !.op = "new", !.ok = FALSE, !.err = Mgr.err, !.pre = Files]
    /\ UNCHANGED << pages, writable, counter, sidestore, root, mode, fs, al, cmd, allocs, wr >>

\* the record of a listing with result r
Listed(opname, q, r) ==
    [LastNone EXCEPT !.op = opname, !.ok = r.ok, !.err = r.err, !.page = q, !.pre = Files,
                     !.metas = r.metas]

\* a listing that creates the counter file
LoadCardMetasCounting(q) ==
    /\ Started
    /\ Mgr.ok
    /\ last' = Listed("load_card_metas", q, load_card_metas(Mgr, q, pages[q], sidestore))
    /\ counter' = [exists |-> TRUE, val |-> 0]
    /\ UNCHANGED << pages, writable, sidestore, root, mode, fs, al, cmd, allocs, wr >>

\* StorageManager::load_card_metas(page q)
LoadCardMetas(q) ==
    /\ Started
    /\ Mgr.ok
    /\ last' = Listed("load_card_metas", q, load_card_metas(Mgr, q, pages[q], sidestore))
    /\ UNCHANGED << pages, writable, counter, sidestore, root, mode, fs, al, cmd, allocs, wr >>

Ref(q, fp) == [source_path |-> q, prompt_fingerprint |-> fp, serial_num |-> NoCsn]

\* the record of a body load with result r
BodyLoaded(q, fp, r) ==
    [LastNone EXCEPT !.op = "load_card_body_by_ref", !.ok = r.ok, !.err = r.err, !.page = q,
                     !.fp = fp, !.pre = Files, !.body = r.body]

\* StorageManager::load_card_body_by_ref(card_ref)
LoadCardBodyByRef(q, fp) ==
    /\ Started
    /\ Mgr.ok
    /\ last' = BodyLoaded(q, fp, load_card_body_by_ref(Ref(q, fp), pages[q]))
    /\ UNCHANGED << pages, writable, counter, sidestore, root, mode, fs, al, cmd, allocs, wr >>

\* the effect of one call of rewrite_card_meta with result r
Rewritten(r, opname, q, fp, m) ==
    /\ pages' = r.pages
    /\ counter' = r.counter
    /\ sidestore' = r.sidestore
    /\ allocs' = IF r.allocated THEN Append(allocs, r.card.metadata.card_ref.serial_num)
                 ELSE allocs
    /\ last' = [LastNone EXCEPT !.op = opname, !.ok = r.ok, !.err = r.err, !.page = q,
                                 !.fp = fp, !.m = m, !.pre = Files, !.found = r.found,
                                 !.allocated = r.allocated, !.card = r.card]

\* StorageManager::rewrite_card_meta(card_ref, srs_meta)
RewriteCardMeta(q, fp, m) ==
    /\ Started
    /\ Mgr.ok
    /\ Rewritten(rewrite_card_meta(Mgr, Ref(q, fp), m, pages, counter, sidestore,
                                   writable[q]),
                 "rewrite_card_meta", q, fp, m)
    /\ UNCHANGED << writable, root, mode, fs, al, cmd, wr >>

\* StorageManager::find_page_files: a page file, or the collection root with
\* its page files in the order read_dir yields them
Paths == {<< q >> : q \in PageIds} \cup {<< 1, 2 >>, << 2, 1 >>}

\* StorageManager::select_card_metadata without a card id
RECURSIVE select_card_metadata(_, _)
RECURSIVE Extended(_, _, _)
select_card_metadata(mgr, page_files) ==
    IF page_files = << >> THEN [ok |-> TRUE, err |-> NoErr, metas |-> << >>]
    ELSE Extended(load_card_metas(mgr, Head(page_files), pages[Head(page_files)], sidestore),
                  mgr, Tail(page_files))

\* the loop body of select_card_metadata: the listing r of one page is
\* followed by those of the remaining page files
Extended(r, mgr, page_files) ==
    IF ~r.ok THEN r
    ELSE LET rest == select_card_metadata(mgr, page_files)
         IN  IF ~rest.ok THEN rest
             ELSE [ok |-> TRUE, err |-> NoErr, metas |-> r.metas \o rest.metas]

\* the effect of the listing of Commands::FixMetadata with result r
FixSelected(page_files, r) ==
    /\ cmd' = [name |-> IF ~r.ok THEN "exit1"
                        ELSE IF r.metas = << >> THEN "exit0" ELSE "fix",
               queue |-> r.metas, selected |-> r.metas, start |-> Files, at |-> 0,
               up_to |-> 0, said |-> ""]
    /\ last' = [Listed("fix_start", 0, r) EXCEPT !.paths = page_files]

\* Commands::FixMetadata up to the loop: the cards of the path are listed
FixStart(page_files) ==
    /\ Started
    /\ Mgr.ok
    /\ Len(page_files) > 1 => root
    /\ FixSelected(page_files, select_card_metadata(Mgr, page_files))
    /\ UNCHANGED << pages, writable, counter, sidestore, root, mode, fs, al, allocs, wr >>

\* a loop that goes on to the next card after an error
FixStepContinue(cm, r) ==
    /\ Rewritten(r, "fix_step", cm.card_ref.source_path, cm.card_ref.prompt_fingerprint,
                 cm.srs_meta)
    /\ cmd' = [cmd EXCEPT !.queue = Tail(cmd.queue),
                          !.name = IF Len(cmd.queue) = 1 THEN "exit0" ELSE "fix"]

\* the effect of one iteration of the loop of Commands::FixMetadata whose
\* call of rewrite_card_meta for the listed card cm has result r
FixStepDone(cm, r) ==
    /\ Rewritten(r, "fix_step", cm.card_ref.source_path, cm.card_ref.prompt_fingerprint,
                 cm.srs_meta)
    /\ cmd' = IF ~r.ok THEN [cmd EXCEPT !.name = "exit1"]
              ELSE [cmd EXCEPT !.queue = Tail(cmd.queue),
                               !.name = IF Len(cmd.queue) = 1 THEN "exit0" ELSE "fix"]

\* one iteration of the loop of Commands::FixMetadata: the next listed card
\* is rewritten with its listed metadata; an error ends the command
FixStep ==
    /\ cmd.name = "fix"
    /\ FixStepDone(Head(cmd.queue),
                    rewrite_card_meta(Mgr, Head(cmd.queue).card_ref, Head(cmd.queue).srs_meta,
                                      pages, counter, sidestore,
                                      writable[Head(cmd.queue).card_ref.source_path]))
    /\ UNCHANGED << writable, root, mode, fs, al, ops, wr >>

Next ==
    \/ NewFails
    \/ \E q \in PageIds : LoadCardMetas(q)
    \/ \E q \in PageIds : \E fp \in KnownFps(q) : LoadCardBodyByRef(q, fp)
    \/ \E q \in PageIds : \E fp \in KnownFps(q) : \E m \in MetaChoices(q, fp) :
          RewriteCardMeta(q, fp, m)
    \/ \E pf \in Paths : FixStart(pf)
    \/ FixStep

Spec == Init /\ [][Next]_vars

\* --------------------------------------- the page write, one file operation
\* at a time
\* rewrite_card_meta up to File::create of Page::rewrite_card, with result r
\* of the whole call: the counter file is written, the regions to write are
\* at hand
\* a call that formats the card block before the serial number is put into
\* the prompt
BegunBeforeTag(q, fp, m, r) ==
    /\ counter' = r.counter
    /\ allocs' = IF r.allocated THEN Append(allocs, r.card.metadata.card_ref.serial_num)
                 ELSE allocs
    /\ last' = [LastNone EXCEPT !.op = "begin_write", !.ok = r.ok, !.err = r.err,
                                 !.page = q, !.fp = fp, !.m = m, !.pre = Files,
                                 !.found = r.found, !.allocated = r.allocated,
                                 !.card = r.card]
    /\ wr' = IF ~r.ok THEN wr
             ELSE [stage |-> "create", page |-> q, old |-> pages[q].lines,
                   pre |-> pre_lines(get_lines(pages[q]), r.found.ranges),
                   block |-> format_card_logseq(
                                 [r.card EXCEPT !.body.prompt = r.found.card.body.prompt],
                                 PartsFor(Mgr)),
                   post |-> post_lines(get_lines(pages[q]), r.found.ranges),
                   side |-> r.sidestore]

Begun(q, fp, m, r) ==
    /\ counter' = r.counter
    /\ allocs' = IF r.allocated THEN Append(allocs, r.card.metadata.card_ref.serial_num)
                 ELSE allocs
    /\ last' = [LastNone EXCEPT !.op = "begin_write", !.ok = r.ok, !.err = r.err,
                                 !.page = q, !.fp = fp, !.m = m, !.pre = Files,
                                 !.found = r.found, !.allocated = r.allocated,
                                 !.card = r.card]
    /\ wr' = IF ~r.ok THEN wr
             ELSE [stage |-> "create", page |-> q, old |-> pages[q].lines,
                   pre |-> pre_lines(get_lines(pages[q]), r.found.ranges),
                   block |-> format_card_logseq(r.card, PartsFor(Mgr)),
                   post |-> post_lines(get_lines(pages[q]), r.found.ranges),
                   side |-> r.sidestore]

BeginWrite(q, fp, m) ==
    /\ Started
    /\ Mgr.ok
    /\ wr.stage = "idle"
    /\ Begun(q, fp, m, rewrite_card_meta(Mgr, Ref(q, fp), m, pages, counter, sidestore,
                                         writable[q]))
    /\ UNCHANGED << pages, writable, sidestore, root, mode, fs, al, cmd >>

\* File::create: the page file is truncated
FileCreate ==
    /\ wr.stage = "create"
    /\ pages' = [pages EXCEPT ![wr.page] = [lines |-> << >>, nl |-> TRUE, cr |-> FALSE]]
    /\ wr' = [wr EXCEPT !.stage = "pre"]
    /\ UNCHANGED << writable, counter, sidestore, root, mode, fs, al, cmd, ops, allocs, last >>

\* the write of pre_lines
WritePre ==
    /\ wr.stage = "pre"
    /\ pages' = [pages EXCEPT ![wr.page].lines = wr.pre]
    /\ wr' = [wr EXCEPT !.stage = "block"]
    /\ UNCHANGED << writable, counter, sidestore, root, mode, fs, al, cmd, ops, allocs, last >>

\* format_card_logseq writes the card block
WriteBlock ==
    /\ wr.stage = "block"
    /\ pages' = [pages EXCEPT ![wr.page].lines = @ \o wr.block]
    /\ wr' = [wr EXCEPT !.stage = "post"]
    /\ UNCHANGED << writable, counter, sidestore, root, mode, fs, al, cmd, ops, allocs, last >>

\* the write of post_lines; rewrite_card returns
WritePost ==
    /\ wr.stage = "post"
    /\ pages' = [pages EXCEPT ![wr.page].lines = @ \o wr.post]
    /\ wr' = [wr EXCEPT !.stage = IF Mgr.metadata_source = "GraphRoot" THEN "side"
                                  ELSE "done"]
    /\ UNCHANGED << writable, counter, sidestore, root, mode, fs, al, cmd, ops, allocs, last >>

\* store_fsrs_metas in side-store mode; rewrite_card_meta returns
StoreSide ==
    /\ wr.stage = "side"
    /\ sidestore' = wr.side
    /\ wr' = [wr EXCEPT !.stage = "done"]
    /\ UNCHANGED << pages, writable, counter, root, mode, fs, al, cmd, ops, allocs, last >>

\* the process is killed between two file operations
Kill ==
    /\ wr.stage \in {"create", "pre", "block", "post", "side"}
    /\ wr' = [wr EXCEPT !.stage = "killed"]
    /\ UNCHANGED << pages, writable, counter, sidestore, root, mode, fs, al, cmd, ops, allocs,
                    last >>

NextCrash ==
    \/ \E q \in PageIds : \E fp \in KnownFps(q) : \E m \in MetaChoices(q, fp) :
          BeginWrite(q, fp, m)
    \/ FileCreate
    \/ WritePre
    \/ WriteBlock
    \/ WritePost
    \/ StoreSide
    \/ Kill

SpecCrash == Init /\ [][NextCrash]_vars

\* ------------------------------------------------------------------ claims
\* the last operation was a call of rewrite_card_meta that returned Ok
RewroteOk == last.op \in {"rewrite_card_meta", "fix_step"} /\ last.ok

\* the page file of the last operation before and after it
OldLines == last.pre.pages[last.page].lines
NewLines == pages[last.page].lines

\* first line of the prompt and last line of the response of the card the
\* last operation found
PromptStart == last.found.ranges.prompt_range[1]
ResponseEnd == last.found.ranges.response_range[2]

\* C1: after a successful rewrite_card_meta on a card, the lines of the page
\* before the card's prompt are the leading lines of the new file and the
\* lines after the card's response are its trailing lines, unchanged and in
\* order; the rewritten block lies between them.
C1_FrameEffect ==
    RewroteOk =>
        /\ Len(NewLines) >= (PromptStart - 1) + (Len(OldLines) - ResponseEnd)
        /\ SubSeq(NewLines, 1, PromptStart - 1) = SubSeq(OldLines, 1, PromptStart - 1)
        /\ SubSeqFrom(NewLines, Len(NewLines) - (Len(OldLines) - ResponseEnd) + 1)
              = SubSeqFrom(OldLines, ResponseEnd + 1)
        /\ SubSeq(NewLines, PromptStart, Len(NewLines) - (Len(OldLines) - ResponseEnd))
              = format_card_logseq(last.card, PartsFor(Mgr))

\* a card between other lines was rewritten and given a serial number, and
\* the page changed
C1_Witness ==
    /\ RewroteOk
    /\ last.allocated
    /\ PromptStart > 1
    /\ ResponseEnd < Len(OldLines)
    /\ NewLines # OldLines

\* the serial number the found card carried before the last operation
FoundCsn == last.found.card.metadata.card_ref.serial_num

\* position of the found card among the cards of its page
IndexOf(items, k) == CHOOSE i \in 1..Len(items) : items[i] = k
FoundIndex == IndexOf(PageNew(last.page, last.pre.pages[last.page]).card_list_items,
                      last.found.item)

\* the cards of the page of the last operation as they are extracted now
PostCards == extract_cards(PageNew(last.page, pages[last.page]))

\* the page of the last operation as parsed before it, and its cards
PrePage == PageNew(last.page, last.pre.pages[last.page])
PreCards == extract_cards(PrePage)

\* the listings load_card_metas gives for the page of the last operation
\* before the operation and now
PreMetas == load_card_metas(Mgr, last.page, last.pre.pages[last.page], last.pre.sidestore)
PostMetas == load_card_metas(Mgr, last.page, pages[last.page], sidestore)

\* the metadata listed for the found card before the last operation and now
PreMeta == PreMetas.metas[FoundIndex].srs_meta
PostMeta == PostMetas.metas[FoundIndex].srs_meta

\* legacy fields and state as a reader derives them from a snapshot f
FromSnapshot(f) == [logseq_srs_meta |-> LogseqFromFsrs(f), fsrs_meta |-> f]

\* C2: at every point of the page write of rewrite_card_meta, and when the
\* process is killed between two of its file operations, the page file holds
\* the lines it held before the rewrite or the lines of the finished rewrite.
C2_OldOrNew ==
    wr.stage # "idle" => pages[wr.page].lines \in {wr.old, wr.pre \o wr.block \o wr.post}

\* the process was killed during a page write
C2_Witness == wr.stage = "killed"

\* the page write, taken one file operation at a time, ends with the files
\* that rewrite_card_meta as a whole leaves
WriteEndsAsRewritten ==
    wr.stage = "done" =>
        LET r == rewrite_card_meta(Mgr, Ref(last.page, last.fp), last.m, last.pre.pages,
                                   last.pre.counter, last.pre.sidestore, TRUE)
        IN  pages = r.pages /\ counter = r.counter /\ sidestore = r.sidestore

\* C3: every serial number the allocator returns is greater than every
\* serial number it returned before.
C3_StrictlyIncreasing ==
    \A i, j \in 1..Len(allocs) : i < j => allocs[i] < allocs[j]

\* an allocation followed earlier allocations against the same counter file
C3_Witness == last.allocated /\ Len(allocs) >= 3

\* C4: a successful rewrite_card_meta on a card whose prompt carries a serial
\* number leaves that serial number in the prompt and does not consult the
\* allocator: no number is returned and the counter file is as it was.
C4_SerialKept ==
    (RewroteOk /\ FoundCsn # NoCsn) =>
        /\ ~last.allocated
        /\ counter = last.pre.counter
        /\ PostCards.ok
        /\ PostCards.cards[FoundIndex].metadata.card_ref.serial_num = FoundCsn

\* a tagged card was rewritten with other metadata while an allocator was
\* at hand
C4_Witness ==
    /\ RewroteOk
    /\ FoundCsn # NoCsn
    /\ Mgr.serial_num_allocator = "GraphRoot"
    /\ last.m # last.found.card.metadata.srs_meta
    /\ NewLines # OldLines

\* C5 (as stated): in inline mode, reading a card's metadata, writing it
\* back and reading again yields the scheduling state read the first time.
C5_RoundTripEqual ==
    (RewroteOk /\ mode = "Inline" /\ PreMetas.ok /\ last.m = PreMeta) =>
        PostMetas.ok /\ PostMeta.fsrs_meta = PreMeta.fsrs_meta

\* C5 (amended): in inline mode, reading a card's metadata, writing it back
\* and reading again yields the scheduling state read the first time with
\* its timestamps truncated to the millisecond and its stability and
\* difficulty rounded to three decimals, whatever metadata lines the page
\* held and in whatever order; this is the state read the first time when
\* that state is already of this precision.
C5_RoundTripStored ==
    (RewroteOk /\ mode = "Inline" /\ PreMetas.ok /\ last.m = PreMeta) =>
        /\ PostMetas.ok
        /\ PostMeta.fsrs_meta = FSRSMetaForStorage(PreMeta.fsrs_meta)
        /\ FSRSMetaForStorage(PreMeta.fsrs_meta) = PreMeta.fsrs_meta
              => PostMeta.fsrs_meta = PreMeta.fsrs_meta

\* the metadata listed for a card whose page held legacy lines and no
\* snapshot was written back
C5_Witness ==
    /\ RewroteOk
    /\ mode = "Inline"
    /\ PreMetas.ok
    /\ last.m = PreMeta
    /\ PreMeta.fsrs_meta.state = "Review"
    /\ \A i \in 1..Len(OldLines) : OldLines[i].key # "card-fsrs-metadata"
    /\ \E i \in 1..Len(NewLines) : NewLines[i].key = "card-fsrs-metadata"

\* C6: in side-store mode every card load_card_metas lists that carries a
\* serial number with a side-store record has that record's state and the
\* legacy fields derived from it, also when several cards of the page carry
\* the same serial number; every other card has its page-derived metadata.
C6_SideStoreWins ==
    (last.op = "load_card_metas" /\ last.ok /\ Mgr.ok /\ Mgr.metadata_source = "GraphRoot") =>
        LET page_metas == load_card_metas_from_page(last.page, pages[last.page]).metas
            by_csn == load_fsrs_metas(sidestore)
        IN  /\ Len(last.metas) = Len(page_metas)
            /\ \A i \in 1..Len(page_metas) :
                  IF /\ page_metas[i].card_ref.serial_num # NoCsn
                     /\ MapHas(by_csn, page_metas[i].card_ref.serial_num)
                  THEN /\ last.metas[i].card_ref = page_metas[i].card_ref
                       /\ last.metas[i].srs_meta
                             = FromSnapshot(MapGet(by_csn, page_metas[i].card_ref.serial_num))
                  ELSE last.metas[i] = page_metas[i]

\* a page with two cards of one serial number was listed in side-store mode
\* while the side-store held a record for that number
C6_Witness ==
    /\ last.op = "load_card_metas"
    /\ last.ok
    /\ Mgr.ok
    /\ Mgr.metadata_source = "GraphRoot"
    /\ \E i, j \in 1..Len(last.metas) :
          /\ i < j
          /\ last.metas[i].card_ref.serial_num # NoCsn
          /\ last.metas[i].card_ref.serial_num = last.metas[j].card_ref.serial_num
          /\ MapHas(load_fsrs_metas(sidestore), last.metas[i].card_ref.serial_num)

\* the last operation was a rewrite of fix-metadata that failed
FixStepFailed == last.op = "fix_step" /\ ~last.ok

WrittenCsn == last.card.metadata.card_ref.serial_num

\* position of the first listed card with serial number n
FirstWithCsn(metas, n) ==
    CHOOSE i \in 1..Len(metas) :
        /\ metas[i].card_ref.serial_num = n
        /\ \A j \in 1..(i - 1) : metas[j].card_ref.serial_num # n

PostFp == PostMetas.metas[FoundIndex].card_ref.prompt_fingerprint

\* C9 (as stated): the fingerprint under which a card is listed after a
\* successful rewrite_card_meta on it is the one it was listed under before,
\* also when the rewrite first embeds a serial number in the prompt.
C9_FingerprintKept ==
    (RewroteOk /\ PreMetas.ok) => PostMetas.ok /\ PostFp = last.fp

\* C9 (amended): the fingerprint under which a card is listed after a
\* successful rewrite_card_meta on it is the one it was listed under before,
\* for any new metadata value and in either mode, unless the rewrite embeds
\* a newly allocated serial number in the prompt; then it is the fingerprint
\* of the prompt with the serial number tag, which differs.
C9_FingerprintKeptUnlessTagged ==
    (RewroteOk /\ PreMetas.ok) =>
        /\ PostMetas.ok
        /\ ~last.allocated => PostFp = last.fp
        /\ last.allocated =>
              /\ PostFp = Fingerprint(ReplaceSerialNum(last.found.card.body.prompt,
                                                        WrittenCsn))
              /\ PostFp # last.fp

\* a card with metadata lines was rewritten with other metadata and no
\* serial number was allocated
C9_Witness ==
    /\ RewroteOk
    /\ PreMetas.ok
    /\ ~last.allocated
    /\ last.m # PreMeta
    /\ NewLines # OldLines
    /\ \E i \in 1..Len(OldLines) : OldLines[i].kind = "meta"

\* the fingerprints of the cards of the page before the last operation
PreFps ==
    {PreCards.cards[i].metadata.card_ref.prompt_fingerprint : i \in 1..Len(PreCards.cards)}

\* the last operation looked for a fingerprint no card of its page has
LookedForAbsent ==
    /\ last.op \in {"rewrite_card_meta", "load_card_body_by_ref"}
    /\ PrePage.ok
    /\ PreCards.ok
    /\ last.fp \notin PreFps

UnparseableLine(l) ==
    /\ l.kind = "meta"
    /\ \/ /\ l.key \in {"card-last-interval", "card-ease-factor", "card-next-schedule",
                        "card-last-reviewed", "card-fsrs-metadata"}
          /\ l.val.bad
       \/ /\ l.key \in {"card-repeats", "card-last-score"}
          /\ ~(~l.val.bad /\ l.val.n >= 0 /\ l.val.n < U8Range)

\* the card item on line k of file f cannot be listed: its children are not
\* [paragraph, list], or its lines are not among those of the file as read,
\* or one of its metadata values does not parse
BadItem(f, k) ==
    LET pe == ParaEnd(f.lines, k)
        e == SubEnd(f.lines, k)
    IN  \/ ~(pe < e /\ f.lines[pe + 1].kind = "item")
        \/ e > Len(get_lines(f))
        \/ \E m \in k..pe : UnparseableLine(f.lines[m])

BadItems(f) ==
    LET items == find_card_list_items(f.lines).items
    IN  {items[i] : i \in {j \in 1..Len(items) : BadItem(f, items[j])}}

\* the smallest element of a non-empty set of numbers
Least(S) == CHOOSE x \in S : \A y \in S : x <= y

\* the number of card items of the files of page_files
RECURSIVE TotalItems(_)
TotalItems(page_files) ==
    IF page_files = << >> THEN 0
    ELSE Len(find_card_list_items(pages[Head(page_files)].lines).items)
         + TotalItems(Tail(page_files))

\* C11: load_card_metas of a file that parses returns the metadata of every
\* card item of the file, or an error and no list; it returns the error,
\* with the line of the item as context, exactly when a card item has
\* children other than [paragraph, list], a line range outside the lines of
\* the file or an unparseable value of a recognised key; select_card_metadata
\* over several files fails as a whole when the listing of one of them fails.
C11_AllOrError ==
    /\ (last.op = "load_card_metas" /\ find_card_list_items(pages[last.page].lines).ok) =>
          LET f == pages[last.page]
              items == find_card_list_items(f.lines).items
          IN  /\ last.ok <=> BadItems(f) = {}
              /\ last.ok => Len(last.metas) = Len(items)
              /\ ~last.ok =>
                    /\ last.metas = << >>
                    /\ last.err.kind \in {"MalformedCard", "RangeError", "CodecError"}
                    /\ last.err.line = Least(BadItems(f))
    /\ last.op = "fix_start" =>
          /\ (\E i \in 1..Len(last.paths) :
                  /\ find_card_list_items(pages[last.paths[i]].lines).ok
                  /\ BadItems(pages[last.paths[i]]) # {})
                => ~last.ok /\ last.metas = << >> /\ cmd.name = "exit1"
          /\ last.ok => Len(last.metas) = TotalItems(last.paths)

\* the listing of a page failed on a metadata value of its second card
C11_Witness ==
    /\ last.op = "load_card_metas"
    /\ ~last.ok
    /\ last.err.kind = "CodecError"
    /\ last.err.line > 1
    /\ Len(find_card_list_items(pages[last.page].lines).items) = 2

\* the listing of a page failed on a line range outside the lines read
C11_RangeFailure == last.op = "load_card_metas" /\ last.err.kind = "RangeError"

\* the listing of several files failed on the second of them
C11_SecondFileFails ==
    /\ last.op = "fix_start"
    /\ ~last.ok
    /\ Len(last.paths) = 2
    /\ last.err.line > 0
    /\ last.paths[2] = 1

\* the number of "\n" a file starts with and ends with: its blank lines at
\* either end, and the newline that ends its last line
RECURSIVE LeadingBlank(_)
LeadingBlank(ls) ==
    IF ls = << >> \/ Head(ls).kind # "blank" THEN 0 ELSE 1 + LeadingBlank(Tail(ls))

TrailingBlank(ls) == Len(ls) - BodyLen(ls)

LeadingNewlines(f) == LeadingBlank(f.lines)
TrailingNewlines(f) == TrailingBlank(f.lines) + (IF f.nl /\ f.lines # << >> THEN 1 ELSE 0)

\* file f holds one card and nothing else but blank lines after it
SingleCard(f) ==
    /\ find_card_list_items(f.lines).ok
    /\ find_card_list_items(f.lines).items = << 1 >>
    /\ SubEnd(f.lines, 1) = BodyLen(f.lines)

\* the page of the last operation before it and now
OldFile == last.pre.pages[last.page]
NewFile == pages[last.page]

\* C12 (as stated): after rewrite_card_meta on a file that holds exactly one
\* card the file has no leading newline and exactly one trailing newline,
\* whether or not it ended with a newline and however many blank lines
\* followed the response.
C12_OneTrailingNewline ==
    (RewroteOk /\ SingleCard(OldFile)) =>
        LeadingNewlines(NewFile) = 0 /\ TrailingNewlines(NewFile) = 1

\* C12 (amended): after rewrite_card_meta on a file that holds exactly one
\* card the file has no leading newline and, whether or not it ended with a
\* newline, exactly one trailing newline when no blank line followed the
\* response; the blank lines that followed the response are kept, so that
\* the file ends with one newline more than there were such blank lines.
C12_TrailingNewlinesKept ==
    (RewroteOk /\ SingleCard(OldFile)) =>
        /\ LeadingNewlines(NewFile) = 0
        /\ TrailingNewlines(NewFile) = 1 + TrailingBlank(OldFile.lines)
        /\ TrailingBlank(OldFile.lines) = 0 => TrailingNewlines(NewFile) = 1

\* a file of one card that did not end with a newline was rewritten
C12_Witness ==
    /\ RewroteOk
    /\ SingleCard(OldFile)
    /\ ~OldFile.nl
    /\ TrailingNewlines(OldFile) = 0
    /\ NewLines # OldLines

\* a file of one card followed by blank lines was rewritten
C12_BlankLinesFollowed ==
    RewroteOk /\ SingleCard(OldFile) /\ TrailingBlank(OldFile.lines) = 2

\* ------------------------------------------------- the page locator alone
\* the record of a classification of path p with result r
Located(p, r) ==
    [LastNone EXCEPT !.op = "find_page_files", !.ok = r.ok, !.err = r.err, !.pre = Files,
                     !.path = p, !.located = r]

\* find_page_files_inner(p) in the filesystem fs
FindPageFiles(p) ==
    /\ Started
    /\ last' = Located(p, find_page_files_inner(fs, p))
    /\ UNCHANGED << pages, writable, counter, sidestore, root, mode, fs, al, cmd, allocs, wr >>

InitPaths ==
    InitWith({File(CardLines(0, "sphere", NoCsn, << >>), TRUE)},
             {Env(FALSE, "Inline", NoFile, NoSideStore, AllWritable)}, Trees)

NextPaths == \E p \in PathArgs : FindPageFiles(p)

SpecPaths == InitPaths /\ [][NextPaths]_vars

\* the path classified last, the result, and whether its parent directory
\* is named "pages"
LocPath == last.path
Loc == last.located
ParentNamedPages(p) == Len(p) >= 2 /\ p[Len(p) - 1] = PagesName
MdFilesIn(d) ==
    {e.path : e \in {x \in fs : /\ x.kind = "file"
                                /\ Len(x.path) = Len(d) + 1
                                /\ SubSeq(x.path, 1, Len(d)) = d
                                /\ x.path[Len(x.path)].ext = "md"}}

\* C13: a path that does not exist fails; an existing non-directory whose
\* parent is not named "pages" yields that file and no root, also a bare
\* relative file name and a file directly under the root directory; an
\* existing non-directory whose parent is named "pages" yields that file with
\* the grandparent as root; a directory with a "pages" directory yields
\* itself as root and the regular files with extension md directly in
\* "pages"; a directory without "pages" fails.
C13_Classification ==
    last.op = "find_page_files" =>
        /\ ~exists(fs, LocPath) => ~Loc.ok
        /\ (is_file(fs, LocPath) /\ ~ParentNamedPages(LocPath)) =>
              Loc.ok /\ Loc.variant = "Single" /\ Loc.files = {LocPath}
        /\ (is_file(fs, LocPath) /\ ParentNamedPages(LocPath)) =>
              /\ Loc.ok
              /\ Loc.variant = "SingleInGraphRoot"
              /\ Loc.files = {LocPath}
              /\ Loc.graph_root = SubSeq(LocPath, 1, Len(LocPath) - 2)
        /\ (is_dir(fs, LocPath) /\ is_dir(fs, LocPath \o << PagesName >>)) =>
              /\ Loc.ok
              /\ Loc.variant = "GraphRoot"
              /\ Loc.graph_root = LocPath
              /\ Loc.files = MdFilesIn(LocPath \o << PagesName >>)
        /\ (is_dir(fs, LocPath) /\ ~exists(fs, LocPath \o << PagesName >>)) => ~Loc.ok

\* a bare relative file name was classified
C13_Witness ==
    /\ last.op = "find_page_files"
    /\ LocPath = << FooMd >>
    /\ is_file(fs, LocPath)

\* the classification fails for an existing non-directory exactly when its
\* parent directory has no name (a bare relative file name, a file directly
\* under "/" or under "."), and is as stated for every other path
C13_ClassificationNamedParent ==
    last.op = "find_page_files" =>
        /\ (is_file(fs, LocPath) /\ Len(LocPath) >= 2
               /\ LocPath[Len(LocPath) - 1].name \notin {"/", ".", ".."})
              => Loc.ok
        /\ (is_file(fs, LocPath)
               /\ (Len(LocPath) < 2 \/ LocPath[Len(LocPath) - 1].name \in {"/", ".", ".."}))
              => ~Loc.ok /\ Loc.err.kind = "ParentWithoutName"
        /\ (Loc.ok \/ ~is_file(fs, LocPath)) => C13_Classification

\* the metadata block format_card_storage_srs_meta writes, by its keys
CanonicalKeys ==
    << "card-last-interval", "card-repeats", "card-ease-factor", "card-next-schedule",
       "card-last-reviewed", "card-last-score", "card-fsrs-metadata" >>

\* the keys of the metadata lines of the card item on line k of lines ls
MetaLinesOf(ls, k) ==
    SelectSeq(SubSeq(ls, k, ParaEnd(ls, k)), LAMBDA l : l.kind = "meta")
MetaKeysOf(ls, k) == [i \in 1..Len(MetaLinesOf(ls, k)) |-> MetaLinesOf(ls, k)[i].key]

\* the card found by the last operation had no metadata lines
FoundBare == MetaLinesOf(OldLines, last.found.item) = << >>

\* the keys of the metadata lines of the rewritten card in its page now (the
\* card starts on the line it started on)
NewMetaKeys == MetaKeysOf(NewLines, last.found.item)

\* the cards without metadata lines are listed with the sentinel state by
\* the last listing: all of them, or those for which the side-store has no
\* record
BareListedNew(all) ==
    LET f == pages[last.page]
        items == find_card_list_items(f.lines).items
    IN  \A i \in 1..Len(items) :
            (/\ MetaLinesOf(f.lines, items[i]) = << >>
             /\ \/ all
                \/ Mgr.metadata_source = "PageFiles"
                \/ last.metas[i].card_ref.serial_num = NoCsn
                \/ ~MapHas(load_fsrs_metas(sidestore), last.metas[i].card_ref.serial_num))
            => last.metas[i].srs_meta = [logseq_srs_meta |-> LogseqDefault,
                                          fsrs_meta |-> FSRSDefault]

C14_SideStoreRewrite == RewroteOk /\ FoundBare /\ Mgr.metadata_source = "GraphRoot"

\* ------------------------------------------------ the metadata decoder alone
\* the metadata lines a prompt may hold: legacy lines with an interval above,
\* at and below zero, two snapshots, a line of an unknown key and a repeat
\* count that does not parse
MetaLinePool ==
    { Meta(2, "card-last-interval", NumVal(3 * FloatOne)),
      Meta(2, "card-last-interval", NumVal(0)),
      Meta(2, "card-last-interval", NumVal(-FloatOne)),
      Meta(2, "card-repeats", NumVal(6)),
      Meta(2, "card-next-schedule", NumVal(8 * SubMilli)),
      Meta(2, "card-last-reviewed", NumVal(2 * SubMilli)),
      Meta(2, "card-fsrs-metadata", JsonVal(FsrsA)),
      Meta(2, "card-fsrs-metadata", JsonVal(FsrsB)),
      Meta(2, "card-unknown", BadVal),
      Meta(2, "card-repeats", BadVal) }

MetaSeqs == UNION {[1..n -> MetaLinePool] : n \in 0..MaxMetaLines}

InitDecode ==
    InitWith({File(CardLines(0, "sphere", NoCsn, ms), TRUE) : ms \in MetaSeqs},
             {Env(FALSE, "Inline", NoFile, NoSideStore, AllWritable)}, {DefaultTree})

NextDecode == LoadCardMetas(1)

SpecDecode == InitDecode /\ [][NextDecode]_vars

\* the metadata lines of the first card of the page listed last, and the
\* values of those with key k
ListedLines == MetaLinesOf(pages[last.page].lines, 1)
ValuesOf(k) == SelectSeq(ListedLines, LAMBDA l : l.key = k)
HasKey(k) == ValuesOf(k) # << >>
LastOf(k) == ValuesOf(k)[Len(ValuesOf(k))].val

\* the legacy field of key k as read: its last value, or the default d
LegacyField(k, d) == IF HasKey(k) THEN LastOf(k).n ELSE d

\* the metadata listed for that card
Decoded == last.metas[1].srs_meta

\* C15: when a prompt decodes, a snapshot line gives the scheduling state
\* and every legacy field is derived from it, whatever legacy lines there
\* are; without a snapshot and with a legacy interval above zero the state
\* is made from the legacy fields (due = next schedule, stability = interval,
\* repetitions = repeats, last review = last reviewed, state Review);
\* without a snapshot and with an interval missing or not above zero the
\* state is the library default; lines of unknown keys do not matter.
C15_Decoding ==
    (last.op = "load_card_metas" /\ last.ok /\ Len(last.metas) = 1) =>
        /\ HasKey("card-fsrs-metadata") =>
              /\ Decoded.fsrs_meta = LastOf("card-fsrs-metadata").f
              /\ Decoded.logseq_srs_meta.last_interval
                    = Decoded.fsrs_meta.scheduled_days * FloatOne
              /\ Decoded.logseq_srs_meta.repeats = Decoded.fsrs_meta.reps % U8Range
              /\ Decoded.logseq_srs_meta.next_schedule = Decoded.fsrs_meta.due
              /\ Decoded.logseq_srs_meta.last_reviewed = Decoded.fsrs_meta.last_review
        /\ (~HasKey("card-fsrs-metadata") /\ LegacyField("card-last-interval", 0) > 0) =>
              /\ Decoded.fsrs_meta.due = LegacyField("card-next-schedule", 0)
              /\ Decoded.fsrs_meta.stability = LegacyField("card-last-interval", 0)
              /\ Decoded.fsrs_meta.reps = LegacyField("card-repeats", 0)
              /\ Decoded.fsrs_meta.last_review = LegacyField("card-last-reviewed", 0)
              /\ Decoded.fsrs_meta.state = "Review"
        /\ (~HasKey("card-fsrs-metadata") /\ LegacyField("card-last-interval", 0) <= 0) =>
              Decoded.fsrs_meta = FSRSDefault
        /\ from_prompt_lines(SelectSeq(ListedLines, LAMBDA l : l.key # "card-unknown")).srs_meta
              = Decoded

\* a prompt with an interval above zero, a repeat count and a line of an
\* unknown key, without a snapshot, was decoded
C15_Witness ==
    /\ last.op = "load_card_metas"
    /\ last.ok
    /\ Len(last.metas) = 1
    /\ ~HasKey("card-fsrs-metadata")
    /\ HasKey("card-unknown")
    /\ HasKey("card-repeats")
    /\ LegacyField("card-last-interval", 0) > 0
    /\ Decoded.fsrs_meta.state = "Review"

\* a prompt with a snapshot after legacy lines was decoded
C15_SnapshotAfterLegacy ==
    /\ last.op = "load_card_metas"
    /\ last.ok
    /\ Len(ListedLines) = 3
    /\ ListedLines[3].key = "card-fsrs-metadata"
    /\ ListedLines[1].key = "card-last-interval"

\* ------------------------------------------------------- the review command
\* the events a terminal read yields: keys, and an event that is not a key
Events == {"space", "d", "esc", "ctrl-c", "1", "2", "3", "4", "x", "resize"}

\* an escape request that knows the Esc key only
IsEscKey(key_event) == key_event = "esc"

\* terminal::is_escape_request
is_escape_request(key_event) == key_event \in {"esc", "ctrl-c"}

\* terminal::grab_key_event on the event read
grab_key_event(event) ==
    IF event = "resize" THEN [ok |-> FALSE, err |-> Err("NotAKey"), key |-> ""]
    ELSE IF is_escape_request(event)
    THEN [ok |-> FALSE, err |-> Err("NopeOutError"), key |-> ""]
    ELSE [ok |-> TRUE, err |-> NoErr, key |-> event]

\* terminal::wait_for_prereview from the key grabbed on: the same key is
\* matched three times
PreReviewOf(g) ==
    IF ~g.ok THEN [ok |-> FALSE, err |-> g.err, resp |-> ""]
    ELSE IF g.key = "space" THEN [ok |-> TRUE, err |-> NoErr, resp |-> "ShowResponse"]
    ELSE IF g.key = "d" THEN [ok |-> TRUE, err |-> NoErr, resp |-> "DelayReview"]
    ELSE [ok |-> FALSE, err |-> Err("NoExpectedAnswer"), resp |-> ""]

wait_for_prereview(event) == PreReviewOf(grab_key_event(event))

\* terminal::wait_for_review from the key grabbed on
ReviewOf(g) ==
    IF ~g.ok THEN [ok |-> FALSE, err |-> g.err, resp |-> ""]
    ELSE IF g.key = "1" THEN [ok |-> TRUE, err |-> NoErr, resp |-> "LittleEffort"]
    ELSE IF g.key = "2" THEN [ok |-> TRUE, err |-> NoErr, resp |-> "SomeEffort"]
    ELSE IF g.key = "3" THEN [ok |-> TRUE, err |-> NoErr, resp |-> "MuchEffort"]
    ELSE IF g.key = "4" THEN [ok |-> TRUE, err |-> NoErr, resp |-> "NoRecall"]
    ELSE [ok |-> FALSE, err |-> Err("NoExpectedAnswer"), resp |-> ""]

wait_for_review(event) == ReviewOf(grab_key_event(event))

\* impl From<&ReviewResponse> for Rating
RatingOf(resp) ==
    CASE resp = "LittleEffort" -> "Easy"
      [] resp = "SomeEffort" -> "Good"
      [] resp = "MuchEffort" -> "Hard"
      [] resp = "NoRecall" -> "Again"

\* one day in timestamp units
Day == DelayHours * 3600 * 1000 * SubMilli

\* the scheduler of the rs_fsrs library without short-term steps, reduced to
\* what its callers rely on: the card is due a rating-dependent number of
\* days after the review, was last reviewed at the review time, has one
\* repetition more and is in state Review
ScheduledDays(rating) ==
    CASE rating = "Again" -> 1
      [] rating = "Hard" -> 2
      [] rating = "Good" -> 3
      [] rating = "Easy" -> 4

fsrs_next(card, now, rating) ==
    [due |-> now + ScheduledDays(rating) * Day,
     stability |-> ScheduledDays(rating) * FloatOne + 1,
     difficulty |-> 5 * FloatOne + 1,
     elapsed_days |-> IF card.state = "New" THEN 0 ELSE (now - card.last_review) \div Day,
     scheduled_days |-> ScheduledDays(rating),
     reps |-> card.reps + 1,
     lapses |-> IF rating = "Again" /\ card.state = "Review" THEN card.lapses + 1
                ELSE card.lapses,
     state |-> "Review",
     last_review |-> now]

\* review::clean_up_fsrs_meta
clean_up_fsrs_meta(value) ==
    [value EXCEPT !.due = truncate_to_millis(value.due),
                  !.stability = Round3(value.stability),
                  !.difficulty = Round3(value.difficulty),
                  !.last_review = truncate_to_millis(value.last_review)]

\* review::compute_next_fsrs_meta
compute_next_fsrs_meta(inner, reviewed_at, resp) ==
    clean_up_fsrs_meta(fsrs_next(inner, reviewed_at, RatingOf(resp)))

\* SRSMeta with the legacy fields derived from the state
SrsMetaFrom(fsrs_meta) ==
    [logseq_srs_meta |-> LogseqFromFsrs(fsrs_meta), fsrs_meta |-> fsrs_meta]

\* review::compute_next_srs_meta
compute_next_srs_meta(inner, reviewed_at, resp) ==
    SrsMetaFrom(compute_next_fsrs_meta(inner, reviewed_at, resp))

\* a delay counted from the time the card was due
DelayedFromDue(inner, reviewed_at, delay) ==
    SrsMetaFrom([inner EXCEPT !.due = truncate_to_millis(inner.due + delay)])

\* review::compute_delayed_srs_meta
compute_delayed_srs_meta(inner, reviewed_at, delay) ==
    SrsMetaFrom([inner EXCEPT !.due = truncate_to_millis(reviewed_at + delay)])

\* the result of review_card: the outcome for the files, the number of
\* prompts shown and of events read, and the metadata written
ReviewResult(out, shown, keys, m) == [out |-> out, shown |-> shown, keys |-> keys, m |-> m]

\* review_card ends with error err and the files as they were
ReviewError(err, shown, keys, pgs, ctr, side) ==
    ReviewResult(Outcome(FALSE, err, pgs, ctr, side, NotFound, FALSE, NoCard), shown, keys,
                 NoMeta)

\* review_card from rewrite_card_meta on
ReviewRewrite(mgr, cm, new_srs_meta, shown, keys, pgs, ctr, side, canWrite) ==
    ReviewResult(rewrite_card_meta(mgr, cm.card_ref, new_srs_meta, pgs, ctr, side, canWrite),
                 shown, keys, new_srs_meta)

\* review_card after wait_for_review
ReviewAnswered(mgr, cm, reviewed_at, review_response, pgs, ctr, side, canWrite) ==
    IF ~review_response.ok THEN ReviewError(review_response.err, 2, 2, pgs, ctr, side)
    ELSE ReviewRewrite(mgr, cm,
                       compute_next_srs_meta(cm.srs_meta.fsrs_meta, reviewed_at,
                                             review_response.resp),
                       2, 2, pgs, ctr, side, canWrite)

\* review_card after wait_for_prereview
ReviewPrereviewed(mgr, cm, reviewed_at, prereview_response, ev2, pgs, ctr, side, canWrite) ==
    IF ~prereview_response.ok THEN ReviewError(prereview_response.err, 1, 1, pgs, ctr, side)
    ELSE IF prereview_response.resp = "ShowResponse"
    THEN ReviewAnswered(mgr, cm, reviewed_at, wait_for_review(ev2), pgs, ctr, side, canWrite)
    ELSE ReviewRewrite(mgr, cm,
                       compute_delayed_srs_meta(cm.srs_meta.fsrs_meta, reviewed_at, Day),
                       1, 1, pgs, ctr, side, canWrite)

\* review_card after load_card_body_by_ref
ReviewLoaded(mgr, cm, reviewed_at, card_body, ev1, ev2, pgs, ctr, side, canWrite) ==
    IF ~card_body.ok THEN ReviewError(card_body.err, 0, 0, pgs, ctr, side)
    ELSE ReviewPrereviewed(mgr, cm, reviewed_at, wait_for_prereview(ev1), ev2, pgs, ctr, side,
                           canWrite)

\* a review_card that does not validate the review time
ReviewCardUnvalidated(mgr, cm, reviewed_at, ev1, ev2, pgs, ctr, side, canWrite) ==
    ReviewLoaded(mgr, cm, reviewed_at,
                 load_card_body_by_ref(cm.card_ref, pgs[cm.card_ref.source_path]),
                 ev1, ev2, pgs, ctr, side, canWrite)

\* review::review_card for the events ev1 and ev2 the terminal yields
review_card(mgr, cm, reviewed_at, ev1, ev2, pgs, ctr, side, canWrite) ==
    IF reviewed_at < cm.srs_meta.fsrs_meta.last_review
    THEN ReviewError(Err("ReviewedBeforeLastReview"), 0, 0, pgs, ctr, side)
    ELSE ReviewLoaded(mgr, cm, reviewed_at,
                      load_card_body_by_ref(cm.card_ref, pgs[cm.card_ref.source_path]),
                      ev1, ev2, pgs, ctr, side, canWrite)

\* the time of the invocation and the times given as --at and --up-to
NoTime == -1
Now == 5 * SubMilli + 1
AtArgs == {NoTime, SubMilli, 9 * SubMilli}
UpToArgs == {NoTime, 3 * SubMilli, 9 * SubMilli}

\* Commands::Review, the match on (at, up_to)
AtOf(at, up_to) == IF at = NoTime THEN Now ELSE at
UpToOf(at, up_to) == IF up_to # NoTime THEN up_to ELSE AtOf(at, up_to)

\* card_metas.retain(|cm| next_schedule <= up_to)
Retained(card_metas, up_to) ==
    SelectSeq(card_metas, LAMBDA cm : cm.srs_meta.logseq_srs_meta.next_schedule <= up_to)

\* the orders shuffle_slice can leave the cards in
Shuffles(card_metas) ==
    {[i \in 1..Len(card_metas) |-> card_metas[p[i]]] :
        p \in {f \in [1..Len(card_metas) -> 1..Len(card_metas)] :
                 \A i, j \in 1..Len(card_metas) : f[i] = f[j] => i = j}}

\* the effect of Commands::Review up to the loop, with listing r and the
\* retained cards in the order queue
ReviewSelected(page_files, args, r, at, up_to, queue) ==
    /\ cmd' = [name |-> IF ~r.ok THEN "exit1"
                        ELSE IF queue = << >> THEN "exit0" ELSE "review",
               queue |-> queue, selected |-> queue, start |-> Files, at |-> at,
               up_to |-> up_to,
               said |-> IF r.ok /\ queue = << >> THEN "Reviewed all cards, huzzah!" ELSE ""]
    /\ last' = [Listed("review_start", 0, r) EXCEPT !.paths = page_files, !.args = args]

\* Commands::Review up to the loop: the cards of the path are listed, those
\* not due are dropped and the rest is shuffled
ReviewShuffled(page_files, args, r, at, up_to) ==
    \E queue \in (IF r.ok THEN Shuffles(Retained(r.metas, up_to)) ELSE {<< >>}) :
        ReviewSelected(page_files, args, r, at, up_to, queue)

ReviewStart(page_files, at, up_to) ==
    /\ cmd.name = "idle"
    /\ Len(page_files) > 1 => root
    /\ ReviewShuffled(page_files, << at, up_to >>,
                      IF Mgr.ok THEN select_card_metadata(Mgr, page_files)
                      ELSE [ok |-> FALSE, err |-> Mgr.err, metas |-> << >>],
                      AtOf(at, up_to), UpToOf(at, up_to))
    /\ UNCHANGED << pages, writable, counter, sidestore, root, mode, fs, al, ops, allocs, wr >>

\* the effect of one iteration of the loop of Commands::Review whose call of
\* review_card for the card cm has result r
ReviewStepDone(cm, events, r) ==
    /\ pages' = r.out.pages
    /\ counter' = r.out.counter
    /\ sidestore' = r.out.sidestore
    /\ allocs' = IF r.out.allocated
                 THEN Append(allocs, r.out.card.metadata.card_ref.serial_num)
                 ELSE allocs
    /\ last' = [LastNone EXCEPT !.op = "review_card", !.ok = r.out.ok, !.err = r.out.err,
                                 !.page = cm.card_ref.source_path,
                                 !.fp = cm.card_ref.prompt_fingerprint, !.m = r.m,
                                 !.pre = Files, !.found = r.out.found,
                                 !.allocated = r.out.allocated, !.card = r.out.card,
                                 !.metas = << cm >>, !.shown = r.shown, !.keys = r.keys,
                                 !.events = SubSeq(events, 1, r.keys)]
    /\ cmd' = IF r.out.ok
              THEN [cmd EXCEPT !.queue = Tail(cmd.queue),
                               !.name = IF Len(cmd.queue) = 1 THEN "exit0" ELSE "review",
                               !.said = IF Len(cmd.queue) = 1
                                        THEN "Reviewed all cards, huzzah!" ELSE ""]
              ELSE IF r.out.err.kind = "NopeOutError"
              THEN [cmd EXCEPT !.name = "exit0", !.said = "Immediate nope out requested"]
              ELSE [cmd EXCEPT !.name = "exit1"]

\* one iteration of the loop of Commands::Review: the next card is reviewed;
\* an error ends the command, with exit code 0 when it is the escape request
ReviewStep(ev1, ev2) ==
    /\ cmd.name = "review"
    /\ ReviewStepDone(Head(cmd.queue), << ev1, ev2 >>,
                      review_card(Mgr, Head(cmd.queue), cmd.at, ev1, ev2, pages, counter,
                                  sidestore, writable[Head(cmd.queue).card_ref.source_path]))
    /\ UNCHANGED << writable, root, mode, fs, al, ops, wr >>

\* snapshots due late and due early
FsrsLate == [FsrsA EXCEPT !.due = 8 * SubMilli]

\* the pages reviewed
ReviewFiles ==
    { \* a card with a snapshot and a card with legacy lines
      File(CardLines(0, "sphere", NoCsn, << Meta(2, "card-fsrs-metadata", JsonVal(FsrsA)) >>)
           \o CardLines(0, "cone", NoCsn, LegacyLines(2, LegacyA)), TRUE),
      \* two cards with the same prompt, the first due late
      File(CardLines(0, "sphere", NoCsn,
                     << Meta(2, "card-fsrs-metadata", JsonVal(FsrsLate)) >>)
           \o CardLines(0, "sphere", NoCsn, << >>), TRUE),
      \* a tagged card with a snapshot and a card whose repeat count does not
      \* parse
      File(CardLines(0, "sphere", 5, << Meta(2, "card-fsrs-metadata", JsonVal(FsrsB)) >>)
           \o CardLines(0, "cube", NoCsn, << Meta(2, "card-repeats", BadVal) >>), TRUE),
      \* a tagged card whose snapshot has a fourth decimal and sub-millisecond
      \* timestamps
      File(CardLines(0, "sphere", 5, << Meta(2, "card-fsrs-metadata", JsonVal(FsrsB)) >>),
           TRUE) }

\* the collections reviewed
ReviewEnvs ==
    { Env(FALSE, "Inline", NoFile, NoSideStore, AllWritable),
      Env(FALSE, "InGraphRoot", NoFile, NoSideStore, AllWritable),
      Env(TRUE, "Inline", [exists |-> TRUE, val |-> 0], NoSideStore, SecondReadOnly),
      Env(TRUE, "InGraphRoot", [exists |-> TRUE, val |-> MaxCounter], SideStoreA,
          AllWritable) }

\* the page files the path of a review names
ReviewPaths == {<< 1 >>, << 2, 1 >>}

InitReview == InitWith(ReviewFiles, ReviewEnvs, {DefaultTree})

NextReview ==
    \/ \E pf \in ReviewPaths : \E at \in AtArgs : \E up_to \in UpToArgs :
          ReviewStart(pf, at, up_to)
    \/ \E ev1 \in Events : \E ev2 \in (IF ev1 = "space" THEN Events ELSE {"x"}) :
          ReviewStep(ev1, ev2)

SpecReview == InitReview /\ [][NextReview]_vars

\* the card the last iteration of the review loop was about, as listed
Reviewing == last.metas[1]

\* the number of cards whose review completed in the session
Completed == Len(cmd.selected) - Len(cmd.queue)

\* C16: review_card with a review time earlier than the card's last review
\* fails before a prompt is shown and before a key is read, the command
\* exits with a non-zero code, and the page files, the counter file and the
\* side-store are as they were before the call.
C16_EarlyReviewFails ==
    (last.op = "review_card" /\ cmd.at < Reviewing.srs_meta.fsrs_meta.last_review) =>
        /\ ~last.ok
        /\ last.err.kind = "ReviewedBeforeLastReview"
        /\ last.shown = 0
        /\ last.keys = 0
        /\ cmd.name = "exit1"
        /\ Files = last.pre

\* a card last reviewed after the review time came up after another card
\* had been reviewed
C16_Witness ==
    /\ last.op = "review_card"
    /\ cmd.at < Reviewing.srs_meta.fsrs_meta.last_review
    /\ ~last.ok
    /\ Completed = 1
    /\ Files # cmd.start

\* the number of times x occurs in the sequence s
Count(s, x) == Cardinality({i \in DOMAIN s : s[i] = x})

\* the sequences a and b hold the same elements the same number of times
SameCards(a, b) ==
    /\ Len(a) = Len(b)
    /\ \A i \in DOMAIN a : Count(a, a[i]) = Count(b, a[i])

\* the bound on the due time that the arguments of the last review stand
\* for: --up-to, else --at, else the current time
UpToMeant ==
    IF last.args[2] # NoTime THEN last.args[2]
    ELSE IF last.args[1] # NoTime THEN last.args[1]
    ELSE Now

NextSchedule(cm) == cm.srs_meta.logseq_srs_meta.next_schedule

\* the cards of a review are the listed cards due by the bound, and a review
\* without such a card says that all cards were reviewed, exits with code 0
\* and leaves the files as they were
C17_SelectionAsStated ==
    (last.op = "review_start" /\ last.ok) =>
        /\ cmd.up_to = UpToMeant
        /\ SameCards(cmd.selected, SelectSeq(last.metas, LAMBDA cm : NextSchedule(cm) <= UpToMeant))
        /\ cmd.selected = << >> =>
              /\ cmd.name = "exit0"
              /\ cmd.said = "Reviewed all cards, huzzah!"
              /\ Files = last.pre

C17_NoneSelected ==
    /\ last.op = "review_start"
    /\ last.ok
    /\ last.metas # << >>
    /\ cmd.selected = << >>

\* a review by the current time presents one card of several
C17_DefaultsUsed ==
    /\ last.op = "review_start"
    /\ last.args = << NoTime, NoTime >>
    /\ Len(cmd.selected) = 2
    /\ Len(last.metas) = 3

\* no two cards of the page of the last operation were listed under the same
\* fingerprint before it
DistinctPrompts ==
    \A i, j \in 1..Len(PreMetas.metas) :
        PreMetas.metas[i].card_ref.prompt_fingerprint
            = PreMetas.metas[j].card_ref.prompt_fingerprint => i = j

\* on pages whose cards have distinct prompts a review rewrites no card that
\* was listed as due after the bound
C17_OnlyDueReviewedDistinct ==
    (last.op = "review_card" /\ last.ok /\ DistinctPrompts) =>
        PreMeta.logseq_srs_meta.next_schedule <= cmd.up_to
\* the last event read in the last iteration of the review loop was Esc or
\* Ctrl+C
EscapeRead ==
    /\ last.op = "review_card"
    /\ last.events # << >>
    /\ last.events[Len(last.events)] \in {"esc", "ctrl-c"}

C18_EscAtFirstPrompt ==
    /\ EscapeRead
    /\ last.events = << "esc" >>
    /\ Completed = 0
\* ------------------------------------------- reading and writing back alone
\* one run of fix-metadata on a page of a collection with one card whose
\* metadata lines are drawn from the pool
InitRoundTrip ==
    InitWith({File(CardLines(0, "sphere", NoCsn, ms), TRUE) : ms \in MetaSeqs},
             {Env(TRUE, "Inline", [exists |-> TRUE, val |-> 0], NoSideStore, AllWritable)},
             {DefaultTree})

NextRoundTrip ==
    \/ cmd.name = "idle" /\ FixStart(<< 1 >>)
    \/ FixStep

SpecRoundTrip == InitRoundTrip /\ [][NextRoundTrip]_vars

\* the orders of the sequence s
Orders(s) ==
    {[i \in 1..Len(s) |-> s[p[i]]] :
        p \in {f \in [1..Len(s) -> 1..Len(s)] : \A i, j \in 1..Len(s) : f[i] = f[j] => i = j}}

\* the page file that listing r of one card yields when the card is
\* rewritten with the metadata listed for it, the other files being as before
\* the last operation; a listing that fails leaves the file as it is
WrittenBack(file, r) ==
    IF ~r.ok THEN file
    ELSE rewrite_card_meta(Mgr, r.metas[1].card_ref, r.metas[1].srs_meta,
                           [last.pre.pages EXCEPT ![1] = file], last.pre.counter,
                           last.pre.sidestore, TRUE).pages[1]

\* the page before the last operation with the metadata lines of its first
\* card, which follow the first line of the prompt, replaced by ms
Reordered(ms) ==
    [last.pre.pages[1] EXCEPT
        !.lines = << OldLines[1] >> \o ms
                  \o SubSeqFrom(OldLines, 2 + Len(MetaLinesOf(OldLines, 1)))]

\* the same, for the page whose first card has the metadata lines ms
RoundTrip(ms) ==
    WrittenBack(Reordered(ms), load_card_metas(Mgr, 1, Reordered(ms), last.pre.sidestore))

\* the value of the last line of key k among the lines ms
LastValues(ms) ==
    [k \in {ms[i].key : i \in 1..Len(ms)} |->
        ms[CHOOSE i \in 1..Len(ms) :
              ms[i].key = k /\ \A j \in (i + 1)..Len(ms) : ms[j].key # k].val]

\* the last iteration of fix-metadata wrote back the card of the first page
WroteBack == last.op = "fix_step" /\ last.ok /\ last.page = 1

\* the metadata lines of that card before
ReadLines == MetaLinesOf(OldLines, 1)

\* C19 as stated: the page written back is the same file for every order of
\* the card's metadata lines, and its metadata block has the canonical keys
\* in the canonical order.
C19_OrderIndependent ==
    WroteBack =>
        /\ NewMetaKeys = CanonicalKeys
        /\ \A ms \in Orders(ReadLines) : RoundTrip(ms) = pages[1]

\* C19: the page written back is the same file for every order of the
\* card's metadata lines in which the last line of each key carries the same
\* value, and its metadata block has the canonical keys in the canonical
\* order.
C19_OrderIndependentLastValues ==
    WroteBack =>
        /\ NewMetaKeys = CanonicalKeys
        /\ \A ms \in Orders(ReadLines) :
              LastValues(ms) = LastValues(ReadLines) => RoundTrip(ms) = pages[1]

\* a card with a repeat count, an unknown key and an interval, in this
\* order, was written back
C19_Witness ==
    /\ WroteBack
    /\ MetaKeysOf(OldLines, 1) = << "card-repeats", "card-unknown", "card-last-interval" >>
    /\ last.m.fsrs_meta.state = "Review"
    /\ NewLines # OldLines

\* a card with two intervals, the last above zero, was written back
C19_TwoIntervals ==
    /\ WroteBack
    /\ MetaKeysOf(OldLines, 1) = << "card-last-interval", "card-last-interval" >>
    /\ last.m.fsrs_meta.state = "Review"
    /\ LastValues(Reverse(ReadLines)) # LastValues(ReadLines)
\* C20: rewrite_card_meta on a page outside a collection root does not fail
\* for want of a serial number and succeeds when the card is found and the
\* page can be written; no serial number is allocated, no counter file
\* exists afterwards, and a prompt without a serial tag is written back
\* without one.
C20_NoRootNoSerial ==
    (last.op \in {"rewrite_card_meta", "fix_step"} /\ ~root) =>
        /\ last.err.kind # "AllocationError"
        /\ (last.found.ok /\ writable[last.page]) => last.ok
        /\ ~last.allocated
        /\ allocs = << >>
        /\ ~counter.exists
        /\ (last.ok /\ FoundCsn = NoCsn) =>
              /\ last.card.metadata.card_ref.serial_num = NoCsn
              /\ NewLines[PromptStart].csn = NoCsn

\* an untagged card of a page outside a collection root was rewritten with
\* other metadata
C20_Witness ==
    /\ RewroteOk
    /\ ~root
    /\ Mgr.serial_num_allocator = "NoOp"
    /\ FoundCsn = NoCsn
    /\ NewLines # OldLines
    /\ NewLines[PromptStart].card

\* --------------------------- the allocator, one file operation at a time
\* a counter file of length 0: the empty string does not parse as u64
EmptyFile == [exists |-> TRUE, val |-> Unparsable]

\* the processes with an allocation in progress
Active == {p \in Procs : al.pc[p] # "idle"}

\* the record of the allocation of process p as it ends with outcome
\* ("ok", "err" or "killed") and serial number n
Ended(p, outcome, n) ==
    [p |-> p, start |-> al.start[p], end |-> al.clock + 1, outcome |-> outcome, n |-> n,
     from |-> al.from[p]]

\* the allocation of process p ends
AllocEnds(p, outcome, n) ==
    /\ al' = [al EXCEPT !.pc[p] = "idle", !.clock = al.clock + 1,
                        !.hist = Append(al.hist, Ended(p, outcome, n))]
    /\ allocs' = IF outcome = "ok" THEN Append(allocs, n) ELSE allocs

\* allocate_inner: `if !card_serial_num_path.exists()`
AllocStart(p) ==
    /\ root
    /\ al.pc[p] = "idle"
    /\ Len(al.hist) + Cardinality(Active) < MaxAllocations
    /\ al' = [al EXCEPT !.pc[p] = IF counter.exists THEN "open" ELSE "create",
                        !.from[p] = counter, !.start[p] = al.clock + 1,
                        !.clock = al.clock + 1]
    /\ UNCHANGED << pages, writable, counter, sidestore, root, mode, fs, cmd, ops, allocs,
                    last, wr >>

\* allocate_inner: File::create, which leaves an existing file empty
AllocCreate(p) ==
    /\ al.pc[p] = "create"
    /\ counter' = EmptyFile
    /\ al' = [al EXCEPT !.pc[p] = "write_zero"]
    /\ UNCHANGED << pages, writable, sidestore, root, mode, fs, cmd, ops, allocs, last, wr >>

\* allocate_inner: write_all(b"0\n") and return Ok(0)
AllocWriteZero(p) ==
    /\ al.pc[p] = "write_zero"
    /\ counter' = [exists |-> TRUE, val |-> 0]
    /\ AllocEnds(p, "ok", 0)
    /\ UNCHANGED << pages, writable, sidestore, root, mode, fs, cmd, ops, last, wr >>

\* allocate_inner: open, read_to_string, parse and increment; a content that
\* does not parse ends the allocation with an error
AllocRead(p) ==
    /\ al.pc[p] = "open"
    /\ IF counter.val = Unparsable
       THEN AllocEnds(p, "err", NoCsn)
       ELSE /\ al' = [al EXCEPT !.pc[p] = "truncate", !.read[p] = Incremented(counter.val)]
            /\ UNCHANGED allocs
    /\ UNCHANGED << pages, writable, counter, sidestore, root, mode, fs, cmd, ops, last, wr >>

\* allocate_inner: seek(SeekFrom::Start(0)) and set_len(0)
AllocTruncate(p) ==
    /\ al.pc[p] = "truncate"
    /\ counter' = EmptyFile
    /\ al' = [al EXCEPT !.pc[p] = "write"]
    /\ UNCHANGED << pages, writable, sidestore, root, mode, fs, cmd, ops, allocs, last, wr >>

\* allocate_inner: write_all of the incremented number and return
AllocWrite(p) ==
    /\ al.pc[p] = "write"
    /\ counter' = [exists |-> TRUE, val |-> al.read[p]]
    /\ AllocEnds(p, "ok", al.read[p])
    /\ UNCHANGED << pages, writable, sidestore, root, mode, fs, cmd, ops, last, wr >>

\* the process is killed between two file operations of its allocation
AllocKill(p) ==
    /\ al.pc[p] \notin {"idle", "create", "open"}
    /\ AllocEnds(p, "killed", NoCsn)
    /\ UNCHANGED << pages, writable, counter, sidestore, root, mode, fs, cmd, ops, last, wr >>

\* a collection without a counter file, with one, and with one that does not
\* parse
InitAlloc ==
    InitWith({SecondPage},
             {Env(TRUE, "Inline", c, NoSideStore, AllWritable) :
                 c \in {NoFile, [exists |-> TRUE, val |-> 0],
                        [exists |-> TRUE, val |-> Unparsable]}},
             {DefaultTree})

NextAlloc ==
    \E p \in Procs :
        \/ AllocStart(p)
        \/ AllocCreate(p)
        \/ AllocWriteZero(p)
        \/ AllocRead(p)
        \/ AllocTruncate(p)
        \/ AllocWrite(p)
        \/ AllocKill(p)

SpecAlloc == InitAlloc /\ [][NextAlloc]_vars

\* the allocations i and j of the history overlap
Overlap(i, j) == ~(al.hist[i].end < al.hist[j].start \/ al.hist[j].end < al.hist[i].start)

\* no two allocations that ended overlapped
Sequential == \A i, j \in 1..Len(al.hist) : i # j => ~Overlap(i, j)

\* the allocations that returned a number
Returns == {i \in 1..Len(al.hist) : al.hist[i].outcome = "ok"}

\* C21: allocations that do not overlap return distinct serial numbers, each
\* the number allocate_inner gives for the counter file it found; allocations
\* that overlap may return the same number (the witness).
C21_DistinctUnlessOverlapping ==
    Sequential =>
        \A i \in Returns :
            /\ al.hist[i].n = allocate_inner(al.hist[i].from).n
            /\ \A j \in Returns : i # j => al.hist[i].n # al.hist[j].n

\* two allocations that overlapped returned the same serial number, read
\* from a counter file that existed
C21_Witness ==
    \E i, j \in Returns :
        /\ i # j
        /\ Overlap(i, j)
        /\ al.hist[i].p # al.hist[j].p
        /\ al.hist[i].n = al.hist[j].n
        /\ al.hist[i].from.exists

\* two allocations that overlapped both created the counter file and
\* returned 0
C21_BothCreated ==
    \E i, j \in Returns :
        /\ i # j
        /\ Overlap(i, j)
        /\ al.hist[i].n = 0
        /\ al.hist[j].n = 0
        /\ ~al.hist[i].from.exists
        /\ ~al.hist[j].from.exists

\* process p is alone: no other allocation is in progress and every earlier
\* one ended before this one started, none overlapping another
Alone(p) ==
    /\ al.pc[p] # "idle"
    /\ Active = {p}
    /\ Sequential
    /\ \A i \in 1..Len(al.hist) : al.hist[i].end < al.start[p]

\* the counter file holds what it held when the allocation started with c,
\* or what the whole allocation leaves
OldOrNew(c) == counter \in {c, allocate_inner(c).counter}

\* C22: at every point of an allocation that runs alone, and after it was
\* killed, the counter file holds the previous counter value or the new one,
\* and the allocation that follows a killed one returns a serial number.
C22_OldOrNew ==
    /\ \A p \in Procs : Alone(p) => OldOrNew(al.from[p])
    /\ (Sequential /\ Active = { } /\ al.hist # << >>) =>
          OldOrNew(al.hist[Len(al.hist)].from)
    /\ \A i \in 2..Len(al.hist) :
          (/\ Sequential
           /\ al.hist[i - 1].outcome = "killed"
           /\ al.hist[i - 1].from.val # Unparsable) => al.hist[i].outcome # "err"

\* an allocation that ran alone was killed after it had emptied the counter
\* file, and the allocation after it failed
C22_Witness ==
    /\ Sequential
    /\ Len(al.hist) = 2
    /\ al.hist[1].outcome = "killed"
    /\ al.hist[1].from = [exists |-> TRUE, val |-> 0]
    /\ al.hist[2].outcome = "err"
    /\ counter = EmptyFile

\* ------------------------------------------------ fix-metadata, run twice
\* the effect of the listing of a second run of fix-metadata with result r;
\* the files the first run started with are kept as cmd.first
FixSelectedAgain(page_files, r) ==
    /\ cmd' = [name |-> IF ~r.ok THEN "exit1"
                        ELSE IF r.metas = << >> THEN "exit0" ELSE "fix",
               queue |-> r.metas, selected |-> r.metas, start |-> Files, at |-> 0,
               up_to |-> 0, said |-> "", first |-> cmd.start]
    /\ last' = [Listed("fix_start", 0, r) EXCEPT !.paths = page_files]

\* a second run of fix-metadata on the same path after a first run that
\* ended well
FixRestart(page_files) ==
    /\ cmd.name = "exit0"
    /\ ops = 1
    /\ ops' = ops + 1
    /\ Mgr.ok
    /\ FixSelectedAgain(page_files, select_card_metadata(Mgr, page_files))
    /\ UNCHANGED << pages, writable, counter, sidestore, root, mode, fs, al, allocs, wr >>

\* the pages of the catalogue in inline mode, outside a collection and in one
InitFixTwice ==
    InitWith(Catalogue,
             {Env(FALSE, "Inline", NoFile, NoSideStore, AllWritable),
              Env(TRUE, "Inline", [exists |-> TRUE, val |-> 0], NoSideStore, AllWritable)},
             {DefaultTree})

NextFixTwice ==
    \/ cmd.name = "idle" /\ FixStart(<< 1 >>)
    \/ FixStep
    \/ FixRestart(<< 1 >>)

SpecFixTwice == InitFixTwice /\ [][NextFixTwice]_vars

\* the second run of fix-metadata ended well
SecondRunDone == cmd.name = "exit0" /\ ops = 2 /\ mode = "Inline"

\* the key k occurs among the lines ls
HasLine(ls, k) == \E i \in 1..Len(ls) : ls[i].kind = "meta" /\ ls[i].key = k

\* C23: in inline mode a second run of fix-metadata leaves every page as the
\* first run left it.
C23_Idempotent == SecondRunDone => pages = cmd.start.pages

\* a second run changed a page whose card had legacy lines only before the
\* first run
C23_Witness ==
    /\ SecondRunDone
    /\ pages # cmd.start.pages
    /\ HasLine(cmd.first.pages[1].lines, "card-last-interval")
    /\ ~HasLine(cmd.first.pages[1].lines, "card-fsrs-metadata")
    /\ Len(cmd.selected) = 1

\* ------------------------------------------------- card discovery alone
\* the longest page considered
MaxLines == 4

\* the lines of an outline: items with and without the card marker at four
\* depths, and the blank line
OutlinePool ==
    {Item(i, "q", TRUE, NoCsn) : i \in {0, 2, 4}}
    \cup {Item(i, "n", FALSE, NoCsn) : i \in {0, 2, 4, 6}}
    \cup {Blank}

\* the last line up to line i that is not blank
RECURSIVE LastLine(_, _)
LastLine(ls, i) == IF i <= 1 \/ ls[i].kind # "blank" THEN i ELSE LastLine(ls, i - 1)

\* an outline as Logseq writes it: the first line is a top-level item and an
\* item is at most one level deeper than the line before it
WellFormed(ls) ==
    /\ ls # << >>
    /\ ls[1].kind = "item" /\ ls[1].ind = 0
    /\ \A i \in 2..Len(ls) :
          ls[i].kind = "blank" \/ ls[i].ind <= ls[LastLine(ls, i - 1)].ind + 2

Outlines == {ls \in UNION {[1..n -> OutlinePool] : n \in 1..MaxLines} : WellFormed(ls)}

\* Page::new followed by Page::extract_cards, with the list items found and
\* the line ranges of each
RangesOf(page) ==
    [i \in 1..Len(page.card_list_items) |->
        find_card_ranges(page.tree, page.card_list_items[i])]

Extracted(q, page, cs) ==
    [LastNone EXCEPT !.op = "extract_cards", !.ok = page.ok /\ cs.ok, !.page = q,
                     !.pre = Files, !.items = page.card_list_items,
                     !.ranges = RangesOf(page)]

ExtractedFrom(q, page) == Extracted(q, page, extract_cards(page))

ExtractCards(q) ==
    /\ Started
    /\ last' = ExtractedFrom(q, PageNew(q, pages[q]))
    /\ UNCHANGED << pages, writable, counter, sidestore, root, mode, fs, al, cmd, allocs, wr >>

InitOutline ==
    InitWith({File(ls, TRUE) : ls \in Outlines},
             {Env(FALSE, "Inline", NoFile, NoSideStore, AllWritable)}, {DefaultTree})

NextOutline == ExtractCards(1)

SpecOutline == InitOutline /\ [][NextOutline]_vars

ExtractedAll == last.op = "extract_cards" /\ last.ok

\* C24: for every card extracted from a page the response line range starts
\* on the line after the last line of the prompt line range, so that the
\* lines from the start of the prompt to the end of the response all belong
\* to the prompt or to the response.
C24_ResponseFollowsPrompt ==
    ExtractedAll =>
        \A i \in 1..Len(last.ranges) :
            last.ranges[i].response_range[1] = last.ranges[i].prompt_range[2] + 1

\* a card was extracted whose response list starts after a blank line: the
\* blank line lies between the two ranges
C24_Witness ==
    /\ ExtractedAll
    /\ \E i \in 1..Len(last.ranges) :
          /\ last.ranges[i].response_range[1] = last.ranges[i].prompt_range[2] + 2
          /\ pages[1].lines[last.ranges[i].prompt_range[2] + 1].kind = "blank"

\* item line j is an ancestor of line k: every line after j up to k is blank
\* or deeper than j
Ancestor(ls, j, k) ==
    /\ j < k
    /\ ls[j].kind = "item"
    /\ \A m \in (j + 1)..k : ls[m].kind = "blank" \/ ls[m].ind > ls[j].ind

\* the item lines with the card marker that no card encloses
OutermostCards(ls) ==
    {k \in 1..Len(ls) :
        /\ ls[k].kind = "item" /\ ls[k].card
        /\ ~\E j \in 1..Len(ls) : Ancestor(ls, j, k) /\ ls[j].card}

Discovered == last.op = "extract_cards" /\ PageNew(1, pages[1]).ok

\* C26: card discovery returns, in document order, exactly the list items
\* with the card marker that have no ancestor item that is a card: items
\* inside a card are not returned, cards at any depth under items that are
\* not cards are all returned.
C26_OutermostCardsInOrder ==
    Discovered =>
        /\ {last.items[i] : i \in 1..Len(last.items)} = OutermostCards(pages[1].lines)
        /\ \A i \in 1..Len(last.items) : \A j \in 1..Len(last.items) :
              i < j => last.items[i] < last.items[j]

\* a page was searched that holds a card three levels deep under items that
\* are not cards
C26_Witness ==
    /\ Discovered
    /\ \E k \in OutermostCards(pages[1].lines) :
          /\ pages[1].lines[k].ind = 4
          /\ \E j \in 1..Len(pages[1].lines) : Ancestor(pages[1].lines, j, k)

\* a page was searched that holds an item with the card marker inside a card
C26_NestedInCard ==
    /\ Discovered
    /\ last.items # << >>
    /\ \E k \in 1..Len(pages[1].lines) :
          /\ pages[1].lines[k].card
          /\ k \notin OutermostCards(pages[1].lines)

\* ------------------------------------------- the steps of rewrite_card_meta
\* the page write of the call begun last has returned
PageWritten == wr.stage \in {"side", "done"} /\ last.op = "begin_write" /\ last.ok

PageNow == pages[wr.page].lines

\* the page holds the card marker with the serial number of the card written
TaggedInPage ==
    \E i \in 1..Len(PageNow) :
        /\ PageNow[i].kind = "item" /\ PageNow[i].card
        /\ PageNow[i].csn = last.card.metadata.card_ref.serial_num
        /\ PageNow[i].csn = allocs[Len(allocs)]

\* the page holds the snapshot line of the metadata written
MetaInPage ==
    \E i \in 1..Len(PageNow) :
        /\ PageNow[i].kind = "meta" /\ PageNow[i].key = "card-fsrs-metadata"
        /\ PageNow[i].val = JsonVal(FSRSMetaForStorage(last.m.fsrs_meta))

\* C25: in every call of rewrite_card_meta the page is read and the card
\* located first, a serial number is allocated only for a card without one
\* and before the page file is touched, the page file is created once and
\* written after that, and the side-store is written only in side-store mode
\* and only once the page holds the whole new content; the one write of the
\* page holds the newly allocated serial number together with the new
\* metadata.
C25_StepOrder ==
    /\ [](PageWritten /\ last.allocated =>
             /\ TaggedInPage
             /\ Mgr.metadata_source = "PageFiles" => MetaInPage)
    /\ [][counter' # counter =>
             /\ wr.stage = "idle" /\ pages' = pages /\ sidestore' = sidestore
             /\ last'.found.card.metadata.card_ref.serial_num = NoCsn]_vars
    /\ [][pages' # pages =>
             /\ wr.stage \in {"create", "pre", "block", "post"}
             /\ counter' = counter /\ sidestore' = sidestore]_vars
    /\ [][wr.stage = "create" /\ wr'.stage = "pre" => pages[wr.page].lines = wr.old]_vars
    /\ [][sidestore' # sidestore =>
             /\ wr.stage = "side" /\ Mgr.metadata_source = "GraphRoot"
             /\ pages' = pages
             /\ PageNow = wr.pre \o wr.block \o wr.post]_vars

\* a call in side-store mode that allocated a serial number wrote the page
\* and then the side-store
C25_Witness ==
    /\ wr.stage = "done" /\ last.op = "begin_write" /\ last.ok
    /\ last.allocated
    /\ Mgr.metadata_source = "GraphRoot"
    /\ sidestore # last.pre.sidestore
    /\ TaggedInPage

\* a call in inline mode that allocated a serial number wrote the page
C25_InlineWritten == PageWritten /\ last.allocated /\ MetaInPage

\* ------------------------------------ legacy fields derived from a snapshot
\* a page whose card carries a snapshot line was listed; the snapshot read
\* and the legacy fields listed for the card
ListedSnapshot == last.op = "load_card_metas" /\ last.ok /\ HasKey("card-fsrs-metadata")
SnapshotRead == LastOf("card-fsrs-metadata").f
LegacyListed == last.metas[1].srs_meta.logseq_srs_meta

\* C27: the legacy fields derived from a scheduling state with repetition
\* count r and scheduled_days d have repeat count r and interval d; the
\* repeat count is not reduced modulo 256.
C27_RepeatsAndInterval ==
    ListedSnapshot =>
        /\ LegacyListed.repeats = SnapshotRead.reps
        /\ LegacyListed.last_interval = I64AsF64(SnapshotRead.scheduled_days)

\* a snapshot with a repetition count above 255 was read: the repeat count
\* listed is the count modulo 256, the interval is scheduled_days
C27_Witness ==
    /\ ListedSnapshot
    /\ SnapshotRead.reps >= U8Range
    /\ LegacyListed.repeats = SnapshotRead.reps - U8Range
    /\ LegacyListed.last_interval = I64AsF64(SnapshotRead.scheduled_days)

\* the interval listed is scheduled_days whatever the repetition count
C27_IntervalDerived ==
    ListedSnapshot => LegacyListed.last_interval = I64AsF64(SnapshotRead.scheduled_days)

\* ------------------------------------------- the operations that only read
NextReads ==
    \/ Next
    \/ \E p \in PathArgs : FindPageFiles(p)

SpecReads == Init /\ [][NextReads]_vars

ReadOps == {"load_card_metas", "load_card_body_by_ref", "fix_start", "find_page_files"}
WriteOps == {"rewrite_card_meta", "fix_step"}

FilesKept == pages' = pages /\ counter' = counter /\ sidestore' = sidestore

\* C28: find_page_files, load_card_metas, select_card_metadata and
\* load_card_body_by_ref leave every page file, the counter file and the
\* side-store file as they were; a page file, the counter and the side-store
\* change only in a call of rewrite_card_meta.
C28_ReadsKeepFiles ==
    /\ [][last'.op \in ReadOps => FilesKept /\ allocs' = allocs]_vars
    /\ [][~FilesKept => last'.op \in WriteOps]_vars

\* a page of a collection with a card that has no serial number was listed:
\* the card is listed without one and the files are as before
C28_Witness ==
    /\ last.op = "load_card_metas" /\ last.ok
    /\ root
    /\ \E i \in 1..Len(last.metas) : last.metas[i].card_ref.serial_num = NoCsn
    /\ Files = last.pre

\* a path was classified and a card body loaded
C28_Located == last.op = "find_page_files" /\ last.ok /\ Files = last.pre
C28_BodyLoaded == last.op = "load_card_body_by_ref" /\ last.ok /\ Files = last.pre
C28_Selected == last.op = "fix_start" /\ last.ok /\ last.metas # << >> /\ Files = last.pre

\* --------------------------------------------------------- a delayed review
\* the last iteration of the review loop delayed its card and wrote it back
DelayedOk == last.op = "review_card" /\ last.ok /\ last.events = << "d" >>

\* the scheduling state the card was listed with, and the state with only
\* its due time set to the review time plus the delay
StateListed == Reviewing.srs_meta.fsrs_meta
StateDelayed == [StateListed EXCEPT !.due = truncate_to_millis(cmd.at + Day)]

\* the scheduling state written back: the snapshot line of the rewritten
\* card, in side-store mode the record of its serial number
SnapshotsWritten ==
    SelectSeq(MetaLinesOf(NewLines, PromptStart), LAMBDA l : l.key = "card-fsrs-metadata")

StateWritten ==
    IF Mgr.metadata_source = "GraphRoot"
    THEN MapGet(load_fsrs_metas(sidestore), last.card.metadata.card_ref.serial_num)
    ELSE SnapshotsWritten[1].val.f

\* C29 as stated: a delayed review writes back the scheduling state of the
\* card with only the due time changed, to the review time plus 24 hours
\* truncated to milliseconds; every other field is written back unchanged.
C29_OnlyDueChanges == DelayedOk => StateWritten = StateDelayed

\* C29: a delayed review writes back the scheduling state of the card with
\* the due time set to the review time plus 24 hours truncated to
\* milliseconds; elapsed and scheduled days, repetitions, lapses and review
\* state are written back unchanged; stability, difficulty and last-review
\* time are written back unchanged in side-store mode and in the precision
\* of the snapshot line (three decimals, milliseconds) in inline mode.
C29_DueChangesStoredPrecision ==
    DelayedOk =>
        StateWritten = IF Mgr.metadata_source = "GraphRoot" THEN StateDelayed
                       ELSE FSRSMetaForStorage(StateDelayed)

\* a card that was due at another time than a day after the review was
\* delayed, in inline mode, at a review time with a fraction of a millisecond
C29_Witness ==
    /\ DelayedOk
    /\ Mgr.metadata_source = "PageFiles"
    /\ StateListed.due # StateDelayed.due
    /\ cmd.at # truncate_to_millis(cmd.at)
    /\ StateWritten = StateDelayed

\* a card whose state has a fourth decimal was delayed in inline mode
C29_RoundedOnWrite ==
    /\ DelayedOk
    /\ Mgr.metadata_source = "PageFiles"
    /\ StateWritten # StateDelayed

\* a card was delayed in side-store mode
C29_SideStoreDelayed == DelayedOk /\ Mgr.metadata_source = "GraphRoot"

\* ------------------------------------------- the serial number in side-store
\* mode
\* the last operation was a call of rewrite_card_meta in side-store mode
SideStoreCall == last.op \in WriteOps /\ Mgr.ok /\ Mgr.metadata_source = "GraphRoot"

\* the call got as far as the update of the side-store: the page was written
SideStoreReached == SideStoreCall /\ last.ok

SerialWritten == last.card.metadata.card_ref.serial_num

\* C30: in side-store mode the card has a serial number whenever
\* rewrite_card_meta reaches the update of the side-store, and the record
\* written carries it; a call whose allocation fails ends before the page
\* and the side-store are written.
C30_SerialPresent ==
    /\ SideStoreReached =>
          /\ SerialWritten # NoCsn
          /\ MapHas(load_fsrs_metas(sidestore), SerialWritten)
          /\ \A i \in 1..Len(sidestore.lines) : sidestore.lines[i].serial_num # NoCsn
    /\ (SideStoreCall /\ ~last.ok /\ last.err.kind = "AllocationError") =>
          pages = last.pre.pages /\ sidestore = last.pre.sidestore

\* a card without a serial number was rewritten in side-store mode: a number
\* was allocated and the side-store holds its record
C30_Witness ==
    /\ SideStoreReached
    /\ last.allocated
    /\ last.found.card.metadata.card_ref.serial_num = NoCsn
    /\ MapHas(load_fsrs_metas(sidestore), SerialWritten)

\* the allocation of a call in side-store mode failed
C30_AllocationFailed == SideStoreCall /\ ~last.ok /\ last.err.kind = "AllocationError"

====
